---------------------------- MODULE Spec2Model ----------------------------
(***************************************************************************)
(* The operator dashboard polling client of templates/dashboard.html:      *)
(* the periodic refresh (setInterval + loadDashboard), the two fetches of  *)
(* a refresh cycle, the render pass, and the three one-shot commands       *)
(* (startUltima, stopUltima, createTask) with their delayed refreshes.     *)
(*                                                                         *)
(* Execution is single-threaded and event-driven: every action below is    *)
(* one run-to-completion job of the event loop (a click handler, a timer   *)
(* callback, or the continuation of an async function after an await).     *)
(***************************************************************************)
EXTENDS Integers, FiniteSets, Sequences, TLC

VARIABLES
    timers,           \* ids of the interval timers that are active
    refreshInterval,  \* the global `let refreshInterval` (0 = undefined)
    nextTimer,        \* number of setInterval calls made so far (ids are 1..nextTimer)
    stopped,          \* history: stopAutoRefresh was called and startAutoRefresh not since
    cycles,           \* loadDashboard invocations that are running or have a request in flight
    nCycles,          \* number of loadDashboard invocations begun so far (ids are 1..nCycles)
    dom,              \* the regions the render functions write
    failStreak,       \* history: number of cycles that ended in the catch block since the last full one
    inflight,         \* per command: POSTs dispatched whose handler has not finished
    timeouts,         \* pending setTimeout(loadDashboard, ...) callbacks: how many each
                      \* command has scheduled, by the time left until they are due
    alert,            \* the alert() box that is open (it blocks the event loop)
    formHidden,       \* #createTaskForm has class "hidden"
    desc,             \* #taskDescription is populated
    details,          \* showTaskModal invocations that are running or have a request in flight
    nDetails,         \* number of showTaskModal invocations begun so far (ids are 1..nDetails)
    modal,            \* the detail overlay #taskModal
    page,             \* the elements the render functions write, element by element
    lastCall,         \* the render function called last, its argument, whether it threw
    activation,       \* the row activated last and the requests its handlers issued
    todos,            \* TodoApp: this.todos
    stored,           \* TodoApp: the item 'todos' of localStorage
    todoInput,        \* TodoApp: the value of #todoInput
    filter,           \* TodoApp: this.filter
    todoList,         \* TodoApp: the rows of #todoList
    now,              \* TodoApp: the value Date.now() returns
    recentTasks,      \* UltimaDashboard: the children of #recentTasks, first child first
    newTaskModal,     \* UltimaDashboard: #newTaskModal has class "active"
    notifications,    \* UltimaDashboard: notification elements in the body
    tasksCompleted,   \* UltimaDashboard: the text of #tasksCompleted
    activeTasks,      \* UltimaDashboard: the number #activeTasks shows
    progress,         \* UltimaDashboard: per .progress-fill, its style.width in percent
    updates,          \* UltimaDashboard: history, calls of updateRealTimeData so far
    animations,       \* UltimaDashboard: history, calls of animateProgressBars so far
    locale,           \* UltimaDashboard: the default locale of the browser
    lengthSlider,     \* PasswordGenerator: the value of #length
    lengthValue,      \* PasswordGenerator: the number #lengthValue shows
    checked,          \* PasswordGenerator: the character types whose checkbox is checked
    passwordField,    \* PasswordGenerator: the value of #generatedPassword, a sequence of characters
    strengthBar,      \* PasswordGenerator: style.width (percent) and className of #strengthBar
    strengthText,     \* PasswordGenerator: textContent and className of #strengthText
    dialog            \* PasswordGenerator: the message of the alert that is open, or ""

vars == <<timers, refreshInterval, nextTimer, stopped, cycles, nCycles, dom,
          failStreak, inflight, timeouts, alert, formHidden, desc,
          details, nDetails, modal, page, lastCall, activation,
          todos, stored, todoInput, filter, todoList, now,
          recentTasks, newTaskModal, notifications, tasksCompleted, activeTasks,
          progress, updates, animations, locale,
          lengthSlider, lengthValue, checked, passwordField, strengthBar, strengthText,
          dialog>>

schedVars == <<timers, refreshInterval, nextTimer, stopped>>
cmdVars   == <<inflight, timeouts, alert, formHidden, desc>>
modalVars == <<details, nDetails, modal>>
renderVars == <<page, lastCall, activation>>
pageVars  == <<schedVars, cycles, nCycles, dom, failStreak, cmdVars, modalVars, renderVars>>
todoVars  == <<todos, stored, todoInput, filter, todoList, now>>
pwVars    == <<lengthSlider, lengthValue, checked, passwordField, strengthBar,
               strengthText, dialog>>
demoVars  == <<recentTasks, newTaskModal, notifications, tasksCompleted, activeTasks,
               progress, updates, animations, locale>>

-----------------------------------------------------------------------------
(* Bounds of the model *)

MaxCycles == 3    \* loadDashboard invocations per behaviour
MaxInFlight == 2  \* loadDashboard invocations with a request in flight at a time
MaxTimers == 2    \* setInterval calls per behaviour
MaxCmds   == 2    \* commands in flight plus delayed refreshes pending
MaxDetails == 3   \* showTaskModal invocations per behaviour
MaxLen    == 11   \* entries of a task list handed to updateTasks
Variants  == 1    \* task lists of each length
MaxTodos  == 3    \* items of the todo list
MaxClock  == 2    \* milliseconds the clock of the todo list advances
MaxActive == 15   \* the largest number #activeTasks is taken to
MaxUpdates == 3   \* calls of updateRealTimeData per behaviour
MaxAnimations == 2 \* calls of animateProgressBars per behaviour
Grain     == 8    \* Math.random() returns k / Grain, k in 0..Grain-1
MaxNotes  == 1    \* notifications on screen at a time

-----------------------------------------------------------------------------
(* Values *)

Slots == {"start", "stop", "create"}

Origins == {"load", "timer", "button", "delayed"}

\* What a fetch() promise of a refresh cycle can be: not settled, rejected
\* (network error), or resolved with a Response.  loadDashboard never reads
\* response.ok, so the flag is an input of the step that reads the body.
Pending  == "pending"
Rejected == "rejected"
Resolved == "resolved"

\* What response.json() can yield for /api/status: a full OrchestratorStatus, an
\* object with ultima_status and total_tasks but no status_counts, an object
\* without ultima_status (an error object), or a body that is not JSON.
StatusBodies == {"snapshot", "partial", "error", "malformed"}

\* What response.json() can yield for /api/tasks: an array of tasks, an object
\* that is not an array (an error object), or a body that is not JSON.
TasksBodies == {"list", "error", "malformed"}

\* Server-reported reasons of a rejected command.
Errors == {"queue full"}

\* How the request of a command can end: fetch rejects, the body is not JSON,
\* or the body is {success, error?} under an ok or a non-ok HTTP status.
Outcomes ==
    {[kind |-> "network", ok |-> FALSE, success |-> FALSE, error |-> "undefined"],
     [kind |-> "malformed", ok |-> TRUE, success |-> FALSE, error |-> "undefined"]}
    \cup [kind : {"json"}, ok : BOOLEAN, success : {TRUE}, error : {"undefined"}]
    \cup [kind : {"json"}, ok : BOOLEAN, success : {FALSE}, error : Errors]

\* The delays of the refresh a command schedules on success, in ms.
StartDelay  == 2000
StopDelay   == 1000
CreateDelay == 1000

Delay(slot) ==
    CASE slot = "start" -> StartDelay
      [] slot = "stop" -> StopDelay
      [] slot = "create" -> CreateDelay

\* Time is observed in steps of the shortest delay.
TimeStep == StopDelay

\* The times a pending callback can have left.
Remaining == {r \in 0..StartDelay : r % TimeStep = 0}

TimeoutKeys == [slot : Slots, rem : Remaining]

NoTimeouts == [k \in TimeoutKeys |-> 0]

\* setTimeout(loadDashboard, Delay(slot)) called by the handler of slot.
SetTimeout(t, slot) ==
    [t EXCEPT ![[slot |-> slot, rem |-> Delay(slot)]] = @ + 1]

NoAlert == [slot |-> "none", kind |-> "none", text |-> "none"]

\* A region as served by the page (Checking..., Loading..., Never), or as
\* written by a render function from the payload of refresh cycle c.
Initial == [kind |-> "initial", src |-> 0]
Rendered(c) == [kind |-> "rendered", src |-> c]
\* A region showing an unavailable/error placeholder.
Unavailable == [kind |-> "unavailable", src |-> 0]

Regions == {"statusBar", "stats", "agents", "tasks", "lastUpdate"}

\* The ids (data-id) of the rows of a rendered task list.
TaskIds == {"42", "43"}

\* What response.json() can yield for /api/task/{id}: a TaskDetail, another
\* JSON object (an error object, whose fields read as undefined), or a body
\* that is not JSON.
DetailBodies == {"task", "error", "malformed"}

\* What response.json() can yield for /api/task/{id}/log: {log: [...]}, another
\* JSON object (logJson.log || [] is then empty), or a body that is not JSON.
LogBodies == {"log", "error", "malformed"}

\* The overlay as served: hidden, "Task Detail", an empty body, "Loading...".
\* src is the showTaskModal invocation that wrote it last, and closedAt the
\* number of invocations begun when #closeModal was clicked last.
InitialModal ==
    [display |-> "none", src |-> 0, title |-> "Task Detail", body |-> "empty",
     log |-> "Loading...", closedAt |-> 0]

-----------------------------------------------------------------------------
(* The render functions.  Each takes the regions d, the cycle c whose payload *)
(* it renders and the parsed payload, and yields the regions afterwards and  *)
(* whether it threw (a TypeError on a missing field).                        *)

\* updateStatusBar reads status.ultima_status.running before it writes anything.
updateStatusBar(d, c, status) ==
    IF status = "error"
    THEN [dom |-> d, threw |-> TRUE]
    ELSE [dom |-> [d EXCEPT !.statusBar = Rendered(c)], threw |-> FALSE]

\* updateStats builds the stats array (status.status_counts.completed) before it
\* assigns statsGrid.innerHTML.
updateStats(d, c, status) ==
    IF status # "snapshot"
    THEN [dom |-> d, threw |-> TRUE]
    ELSE [dom |-> [d EXCEPT !.stats = Rendered(c)], threw |-> FALSE]

\* updateAgents: Object.entries(status.agent_counts), then agentsList.innerHTML.
updateAgents(d, c, status) ==
    IF status # "snapshot"
    THEN [dom |-> d, threw |-> TRUE]
    ELSE [dom |-> [d EXCEPT !.agents = Rendered(c)], threw |-> FALSE]

\* updateTasks: tasks.length and tasks.slice(0, 10) of an object that is not an
\* array throw before tasksList.innerHTML is assigned.
updateTasks(d, c, tasks) ==
    IF tasks # "list"
    THEN [dom |-> d, threw |-> TRUE]
    ELSE [dom |-> [d EXCEPT !.tasks = Rendered(c)], threw |-> FALSE]

\* A loadDashboard that writes #lastUpdate before its render calls.
RenderPassStampsFirst(d, c, status, tasks) ==
    LET d0 == [d EXCEPT !.lastUpdate = Rendered(c)] IN
    LET r1 == updateStatusBar(d0, c, status) IN
    IF r1.threw THEN r1 ELSE
    LET r2 == updateStats(r1.dom, c, status) IN
    IF r2.threw THEN r2 ELSE
    LET r3 == updateAgents(r2.dom, c, status) IN
    IF r3.threw THEN r3 ELSE
    updateTasks(r3.dom, c, tasks)

\* Lines 419-424 of loadDashboard: the four render calls in order, then the
\* write of #lastUpdate; the first throw ends the pass.
RenderPass(d, c, status, tasks) ==
    LET r1 == updateStatusBar(d, c, status) IN
    IF r1.threw THEN r1 ELSE
    LET r2 == updateStats(r1.dom, c, status) IN
    IF r2.threw THEN r2 ELSE
    LET r3 == updateAgents(r2.dom, c, status) IN
    IF r3.threw THEN r3 ELSE
    LET r4 == updateTasks(r3.dom, c, tasks) IN
    IF r4.threw THEN r4 ELSE
    [dom |-> [r4.dom EXCEPT !.lastUpdate = Rendered(c)], threw |-> FALSE]

-----------------------------------------------------------------------------
(* Helpers on the state *)

\* The event loop runs a job only while no alert() box is open.
EventLoopFree == alert = NoAlert

\* A cycle has a request that has neither resolved nor rejected.
Unsettled(c) == cycles[c].st = Pending \/ cycles[c].tk = Pending

\* Commands awaiting their response plus delayed refreshes not yet fired.
RECURSIVE Total(_, _)
Total(t, keys) ==
    IF keys = {} THEN 0
    ELSE LET k == CHOOSE x \in keys : TRUE IN t[k] + Total(t, keys \ {k})

\* The number of setTimeout callbacks that have not fired.
PendingTimeouts == Total(timeouts, TimeoutKeys)

Outstanding ==
    inflight["start"] + inflight["stop"] + inflight["create"] + PendingTimeouts

\* The cycles after cycle c became cy: a cycle whose function has returned and
\* whose two requests have settled is no longer referenced by anything.
Store(c, cy) ==
    IF cy.phase = "done" /\ cy.st # Pending /\ cy.tk # Pending
    THEN [k \in DOMAIN cycles \ {c} |-> cycles[k]]
    ELSE [cycles EXCEPT ![c] = cy]

-----------------------------------------------------------------------------
(* The refresh scheduler *)

\* loadDashboard up to its first await: both fetches are issued.
loadDashboard(origin) ==
    /\ nCycles < MaxCycles
    /\ Cardinality(DOMAIN cycles) < MaxInFlight
    /\ nCycles' = nCycles + 1
    /\ cycles' = (nCycles + 1 :> [origin |-> origin, phase |-> "fetching",
                                  st |-> Pending, tk |-> Pending,
                                  status |-> "none"]) @@ cycles

\* startAutoRefresh: a new interval timer whose id overwrites refreshInterval.
\* It is a global function of the page; the DOMContentLoaded listener calls it
\* once (Init), and here any script may call it again.
startAutoRefresh ==
    /\ EventLoopFree
    /\ nextTimer < MaxTimers
    /\ nextTimer' = nextTimer + 1
    /\ timers' = timers \cup {nextTimer + 1}
    /\ refreshInterval' = nextTimer + 1
    /\ stopped' = FALSE
    /\ UNCHANGED <<cycles, nCycles, dom, failStreak, cmdVars, modalVars, renderVars, todoVars, demoVars, pwVars>>

\* stopAutoRefresh: clears the timer refreshInterval names, if it names one.
\* It is a global function of the page that the page itself never calls.
stopAutoRefresh ==
    /\ EventLoopFree
    /\ timers' = IF refreshInterval # 0 THEN timers \ {refreshInterval} ELSE timers
    /\ stopped' = TRUE
    /\ UNCHANGED <<refreshInterval, nextTimer, cycles, nCycles, dom, failStreak, cmdVars, modalVars, renderVars, todoVars, demoVars, pwVars>>

\* An active interval timer fires: loadDashboard is called.
TimerTick(t) ==
    /\ EventLoopFree
    /\ t \in timers
    /\ loadDashboard("timer")
    /\ UNCHANGED <<schedVars, dom, failStreak, cmdVars, modalVars, renderVars, todoVars, demoVars, pwVars>>

\* A Refresh listener that restarts the interval before it loads:
\* clearInterval(refreshInterval), setInterval(loadDashboard, 3000).
ClickRefreshRestartsTimer ==
    /\ EventLoopFree
    /\ nextTimer < MaxTimers
    /\ nextTimer' = nextTimer + 1
    /\ timers' = (timers \ {refreshInterval}) \cup {nextTimer + 1}
    /\ refreshInterval' = nextTimer + 1
    /\ loadDashboard("button")
    /\ UNCHANGED <<stopped, dom, failStreak, cmdVars, modalVars, renderVars, todoVars, demoVars, pwVars>>

\* Click on #refreshData: loadDashboard is the listener.
ClickRefresh ==
    /\ EventLoopFree
    /\ loadDashboard("button")
    /\ UNCHANGED <<schedVars, dom, failStreak, cmdVars, modalVars, renderVars, todoVars, demoVars, pwVars>>

\* A setTimeout(loadDashboard, ...) scheduled by the handler of slot fires: its
\* delay has elapsed.
TimeoutFires(slot) ==
    /\ EventLoopFree
    /\ timeouts[[slot |-> slot, rem |-> 0]] > 0
    /\ timeouts' = [timeouts EXCEPT ![[slot |-> slot, rem |-> 0]] = @ - 1]
    /\ loadDashboard("delayed")
    /\ UNCHANGED <<schedVars, dom, failStreak, inflight, alert, formHidden, desc, modalVars, renderVars, todoVars, demoVars, pwVars>>

-----------------------------------------------------------------------------
(* The continuation of loadDashboard *)

\* A catch block that throws the error again: the promise loadDashboard
\* returned rejects with nothing to handle it.
CatchRethrows(c, cy) ==
    /\ cycles' = Store(c, [cy EXCEPT !.phase = "unhandledrejection"])
    /\ failStreak' = failStreak + 1
    /\ UNCHANGED <<schedVars, nCycles, dom, cmdVars, modalVars, renderVars, todoVars, demoVars, pwVars>>

\* A catch block that issues both requests of the cycle again.
CatchRetries(c, cy) ==
    /\ cycles' = [cycles EXCEPT ![c] = [cy EXCEPT !.phase = "fetching",
                                                  !.st = Pending, !.tk = Pending]]
    /\ failStreak' = failStreak + 1
    /\ UNCHANGED <<schedVars, nCycles, dom, cmdVars, modalVars, renderVars, todoVars, demoVars, pwVars>>

\* A catch block that also gave up the cadence (clearInterval(refreshInterval)).
CatchStopsCadence(c, cy) ==
    /\ cycles' = Store(c, [cy EXCEPT !.phase = "done"])
    /\ failStreak' = failStreak + 1
    /\ timers' = timers \ {refreshInterval}
    /\ UNCHANGED <<refreshInterval, nextTimer, stopped, nCycles, dom, cmdVars, modalVars, renderVars, todoVars, demoVars, pwVars>>

\* The catch block of loadDashboard: console.error, nothing else.
Catch(c, cy) ==
    /\ cycles' = Store(c, [cy EXCEPT !.phase = "done"])
    /\ failStreak' = failStreak + 1
    /\ UNCHANGED <<schedVars, nCycles, dom, cmdVars, modalVars, renderVars, todoVars, demoVars, pwVars>>

\* A fetch of cycle c settled, leaving the cycle as cy.  Promise.all rejects
\* with the first rejection and resolves once both fetches have resolved; a
\* settlement after the function has returned has no listener left.
PromiseAll(c, cy) ==
    IF cy.phase = "fetching" /\ (cy.st = Rejected \/ cy.tk = Rejected)
    THEN Catch(c, cy)
    ELSE /\ cycles' = Store(c, IF cy.phase = "fetching" /\ cy.st = Resolved
                                   /\ cy.tk = Resolved
                               THEN [cy EXCEPT !.phase = "statusJson"]
                               ELSE cy)
         /\ UNCHANGED <<schedVars, nCycles, dom, failStreak, cmdVars, modalVars, renderVars, todoVars, demoVars, pwVars>>

\* fetch('/api/status') of cycle c settles.
StatusSettles(c, out) ==
    /\ EventLoopFree
    /\ c \in DOMAIN cycles
    /\ cycles[c].st = Pending
    /\ PromiseAll(c, [cycles[c] EXCEPT !.st = out])

\* fetch('/api/tasks') of cycle c settles.
TasksSettles(c, out) ==
    /\ EventLoopFree
    /\ c \in DOMAIN cycles
    /\ cycles[c].tk = Pending
    /\ PromiseAll(c, [cycles[c] EXCEPT !.tk = out])

\* `await statusResponse.json()` of cycle c completes with body, whatever the
\* ok flag of the response.
StatusJson(c, ok, body) ==
    /\ EventLoopFree
    /\ c \in DOMAIN cycles
    /\ cycles[c].phase = "statusJson"
    /\ IF body = "malformed"
       THEN Catch(c, cycles[c])
       ELSE /\ cycles' = [cycles EXCEPT ![c].phase = "tasksJson", ![c].status = body]
            /\ UNCHANGED <<schedVars, nCycles, dom, failStreak, cmdVars, modalVars, renderVars, todoVars, demoVars, pwVars>>

\* `await tasksResponse.json()` of cycle c completes with body; the render pass
\* follows in the same job.
TasksJson(c, ok, body) ==
    /\ EventLoopFree
    /\ c \in DOMAIN cycles
    /\ cycles[c].phase = "tasksJson"
    /\ IF body = "malformed"
       THEN Catch(c, cycles[c])
       ELSE LET r == RenderPass(dom, c, cycles[c].status, body) IN
            /\ dom' = r.dom
            /\ failStreak' = IF r.threw THEN failStreak + 1 ELSE 0
            /\ cycles' = Store(c, [cycles[c] EXCEPT !.phase = "done"])
            /\ UNCHANGED <<schedVars, nCycles, cmdVars, modalVars, renderVars, todoVars, demoVars, pwVars>>

-----------------------------------------------------------------------------
(* The control panel *)

\* The first statement of a command handler: the POST is sent.
Dispatch(slot) ==
    /\ EventLoopFree
    /\ Outstanding < MaxCmds
    /\ inflight' = [inflight EXCEPT ![slot] = @ + 1]

\* Click on #startUltima: startUltima up to its first await.
ClickStartUltima ==
    /\ Dispatch("start")
    /\ UNCHANGED <<schedVars, cycles, nCycles, dom, failStreak, timeouts, alert,
                   formHidden, desc, modalVars, renderVars, todoVars, demoVars, pwVars>>

\* Click on #stopUltima: stopUltima up to its first await.
ClickStopUltima ==
    /\ Dispatch("stop")
    /\ UNCHANGED <<schedVars, cycles, nCycles, dom, failStreak, timeouts, alert,
                   formHidden, desc, modalVars, renderVars, todoVars, demoVars, pwVars>>

\* Submit of #taskForm: createTask up to its first await.  The browser raises
\* the submit event only from the visible form with its required textarea filled.
SubmitCreateTask ==
    /\ ~formHidden
    /\ desc
    /\ Dispatch("create")
    /\ UNCHANGED <<schedVars, cycles, nCycles, dom, failStreak, timeouts, alert,
                   formHidden, desc, modalVars, renderVars, todoVars, demoVars, pwVars>>

\* Click on #toggleCreateTask.
toggleCreateTaskForm ==
    /\ EventLoopFree
    /\ formHidden' = ~formHidden
    /\ UNCHANGED <<schedVars, cycles, nCycles, dom, failStreak, inflight, timeouts,
                   alert, desc, modalVars, renderVars, todoVars, demoVars, pwVars>>

\* The user edits #taskDescription of the visible form (fills or empties it).
EditDescription ==
    /\ EventLoopFree
    /\ ~formHidden
    /\ desc' = ~desc
    /\ UNCHANGED <<schedVars, cycles, nCycles, dom, failStreak, inflight, timeouts,
                   alert, formHidden, modalVars, renderVars, todoVars, demoVars, pwVars>>

\* A handler that schedules the refresh whatever the result was.
UltimaResultAlwaysRefreshes(slot, o) ==
    /\ EventLoopFree
    /\ inflight[slot] > 0
    /\ inflight' = [inflight EXCEPT ![slot] = @ - 1]
    /\ timeouts' = SetTimeout(timeouts, slot)
    /\ alert' = IF o.kind = "json" /\ o.success
                THEN NoAlert
                ELSE IF o.kind = "json"
                     THEN [slot |-> slot, kind |-> "Failed", text |-> o.error]
                     ELSE [slot |-> slot, kind |-> "Error", text |-> o.kind]
    /\ UNCHANGED <<schedVars, cycles, nCycles, dom, failStreak, formHidden, desc, modalVars, renderVars, todoVars, demoVars, pwVars>>

\* The rest of startUltima and stopUltima once the request has ended as o:
\* result.success schedules the delayed refresh, anything else is an alert.
UltimaResult(slot, o) ==
    /\ EventLoopFree
    /\ inflight[slot] > 0
    /\ inflight' = [inflight EXCEPT ![slot] = @ - 1]
    /\ IF o.kind = "json" /\ o.success
       THEN /\ timeouts' = SetTimeout(timeouts, slot)
            /\ alert' = NoAlert
       ELSE /\ timeouts' = timeouts
            /\ alert' = IF o.kind = "json"
                        THEN [slot |-> slot, kind |-> "Failed", text |-> o.error]
                        ELSE [slot |-> slot, kind |-> "Error", text |-> o.kind]
    /\ UNCHANGED <<schedVars, cycles, nCycles, dom, failStreak, formHidden, desc, modalVars, renderVars, todoVars, demoVars, pwVars>>

startUltimaResult(o) == UltimaResult("start", o)

stopUltimaResult(o) == UltimaResult("stop", o)

\* A createTask without the else branch and with an empty catch block.
createTaskResultSilent(o) ==
    /\ EventLoopFree
    /\ inflight["create"] > 0
    /\ inflight' = [inflight EXCEPT !["create"] = @ - 1]
    /\ IF o.kind = "json" /\ o.ok
       THEN /\ desc' = FALSE
            /\ formHidden' = TRUE
            /\ timeouts' = SetTimeout(timeouts, "create")
            /\ alert' = NoAlert
       ELSE UNCHANGED <<desc, formHidden, timeouts, alert>>
    /\ UNCHANGED <<schedVars, cycles, nCycles, dom, failStreak, modalVars, renderVars, todoVars, demoVars, pwVars>>

\* A createTask that schedules the refresh but leaves the form on screen.
createTaskResultKeepsForm(o) ==
    /\ EventLoopFree
    /\ inflight["create"] > 0
    /\ inflight' = [inflight EXCEPT !["create"] = @ - 1]
    /\ IF o.kind = "json" /\ o.ok
       THEN /\ desc' = FALSE
            /\ formHidden' = formHidden
            /\ timeouts' = SetTimeout(timeouts, "create")
            /\ alert' = NoAlert
       ELSE /\ UNCHANGED <<desc, formHidden, timeouts>>
            /\ alert' = IF o.kind = "json"
                        THEN [slot |-> "create", kind |-> "Failed", text |-> o.error]
                        ELSE [slot |-> "create", kind |-> "Error", text |-> o.kind]
    /\ UNCHANGED <<schedVars, cycles, nCycles, dom, failStreak, modalVars, renderVars, todoVars, demoVars, pwVars>>

\* The rest of createTask once the request has ended as o: response.ok resets
\* and hides the form and schedules the delayed refresh, whatever result.success
\* is; a non-ok response is an alert with result.error.
createTaskResult(o) ==
    /\ EventLoopFree
    /\ inflight["create"] > 0
    /\ inflight' = [inflight EXCEPT !["create"] = @ - 1]
    /\ IF o.kind = "json" /\ o.ok
       THEN /\ desc' = FALSE
            /\ formHidden' = TRUE
            /\ timeouts' = SetTimeout(timeouts, "create")
            /\ alert' = NoAlert
       ELSE /\ UNCHANGED <<desc, formHidden, timeouts>>
            /\ alert' = IF o.kind = "json"
                        THEN [slot |-> "create", kind |-> "Failed", text |-> o.error]
                        ELSE [slot |-> "create", kind |-> "Error", text |-> o.kind]
    /\ UNCHANGED <<schedVars, cycles, nCycles, dom, failStreak, modalVars, renderVars, todoVars, demoVars, pwVars>>

\* TimeStep ms pass: every pending callback is that much closer to being due.
Advance ==
    /\ \E k \in TimeoutKeys : k.rem > 0 /\ timeouts[k] > 0
    /\ timeouts' =
         [k \in TimeoutKeys |->
            LET later == [slot |-> k.slot, rem |-> k.rem + TimeStep] IN
            (IF k.rem = 0 THEN timeouts[k] ELSE 0)
            + (IF later \in TimeoutKeys THEN timeouts[later] ELSE 0)]
    /\ UNCHANGED <<schedVars, cycles, nCycles, dom, failStreak, inflight, alert,
                   formHidden, desc, modalVars, renderVars, todoVars, demoVars, pwVars>>

\* The user closes the alert() box; the handler that raised it returns.
DismissAlert ==
    /\ alert # NoAlert
    /\ alert' = NoAlert
    /\ UNCHANGED <<schedVars, cycles, nCycles, dom, failStreak, inflight, timeouts,
                   formHidden, desc, modalVars, renderVars, todoVars, demoVars, pwVars>>

-----------------------------------------------------------------------------
(* The task detail overlay *)

\* The invocations after invocation d became dt (see Store).
StoreDetail(d, dt) ==
    IF dt.phase = "done" /\ dt.dt # Pending /\ dt.lg # Pending
    THEN [k \in DOMAIN details \ {d} |-> details[k]]
    ELSE [details EXCEPT ![d] = dt]

\* A showTaskModal that keeps the last detail it displayed and serves the same
\* id from it without a request.
showTaskModalCached(id) ==
    /\ nDetails < MaxDetails
    /\ nDetails' = nDetails + 1
    /\ details' = (nDetails + 1 :>
                     IF modal.src # 0 /\ modal.title = id
                     THEN [id |-> id, phase |-> "taskJson", dt |-> Resolved,
                           lg |-> Resolved, task |-> "none"]
                     ELSE [id |-> id, phase |-> "fetching", dt |-> Pending,
                           lg |-> Pending, task |-> "none"]) @@ details

\* showTaskModal up to its first await: both fetches are issued.
showTaskModal(id) ==
    /\ nDetails < MaxDetails
    /\ nDetails' = nDetails + 1
    /\ details' = (nDetails + 1 :> [id |-> id, phase |-> "fetching", dt |-> Pending,
                                    lg |-> Pending, task |-> "none"]) @@ details

\* Click on a row of the rendered task list: its onclick calls
\* showTaskModal(el.dataset.id).  The open overlay covers the page.
ClickTaskRow(id) ==
    /\ EventLoopFree
    /\ dom.tasks.kind = "rendered"
    /\ modal.display = "none"
    /\ showTaskModal(id)
    /\ UNCHANGED <<schedVars, cycles, nCycles, dom, failStreak, cmdVars, modal, renderVars, todoVars, demoVars, pwVars>>

\* The catch block of showTaskModal: alert('Failed to load task detail').
CatchDetail(d, dt) ==
    /\ details' = StoreDetail(d, [dt EXCEPT !.phase = "done"])
    /\ alert' = [slot |-> "detail", kind |-> "Failed",
                 text |-> "Failed to load task detail"]
    /\ UNCHANGED <<schedVars, cycles, nCycles, dom, failStreak, inflight, timeouts,
                   formHidden, desc, nDetails, modal, renderVars, todoVars, demoVars, pwVars>>

\* A fetch of invocation d settled, leaving it as dt (see PromiseAll).
PromiseAllDetail(d, dt) ==
    IF dt.phase = "fetching" /\ (dt.dt = Rejected \/ dt.lg = Rejected)
    THEN CatchDetail(d, dt)
    ELSE /\ details' = StoreDetail(d, IF dt.phase = "fetching" /\ dt.dt = Resolved
                                         /\ dt.lg = Resolved
                                      THEN [dt EXCEPT !.phase = "taskJson"]
                                      ELSE dt)
         /\ UNCHANGED <<schedVars, cycles, nCycles, dom, failStreak, cmdVars,
                        nDetails, modal, renderVars, todoVars, demoVars, pwVars>>

\* fetch(`/api/task/${id}`) of invocation d settles.
DetailSettles(d, out) ==
    /\ EventLoopFree
    /\ d \in DOMAIN details
    /\ details[d].dt = Pending
    /\ PromiseAllDetail(d, [details[d] EXCEPT !.dt = out])

\* fetch(`/api/task/${id}/log`) of invocation d settles.
LogSettles(d, out) ==
    /\ EventLoopFree
    /\ d \in DOMAIN details
    /\ details[d].lg = Pending
    /\ PromiseAllDetail(d, [details[d] EXCEPT !.lg = out])

\* `await taskRes.json()` of invocation d completes with body.
TaskJson(d, body) ==
    /\ EventLoopFree
    /\ d \in DOMAIN details
    /\ details[d].phase = "taskJson"
    /\ IF body = "malformed"
       THEN CatchDetail(d, details[d])
       ELSE /\ details' = [details EXCEPT ![d].phase = "logJson", ![d].task = body]
            /\ UNCHANGED <<schedVars, cycles, nCycles, dom, failStreak, cmdVars,
                           nDetails, modal, renderVars, todoVars, demoVars, pwVars>>

\* `await logRes.json()` of invocation d completes with body; the title, the
\* body and the log of the overlay are written and the overlay is shown.
LogJson(d, body) ==
    /\ EventLoopFree
    /\ d \in DOMAIN details
    /\ details[d].phase = "logJson"
    /\ IF body = "malformed"
       THEN CatchDetail(d, details[d])
       ELSE /\ modal' = [display |-> "flex", src |-> d, title |-> details[d].id,
                         body |-> IF details[d].task = "task" THEN "fields"
                                  ELSE "undefined fields",
                         log |-> IF body = "log" THEN "lines" ELSE "",
                         closedAt |-> modal.closedAt]
            /\ details' = StoreDetail(d, [details[d] EXCEPT !.phase = "done"])
            /\ UNCHANGED <<schedVars, cycles, nCycles, dom, failStreak, cmdVars,
                           nDetails, renderVars, todoVars, demoVars, pwVars>>

\* Click on #closeModal, which is on screen while the overlay is.
CloseModal ==
    /\ EventLoopFree
    /\ modal.display = "flex"
    /\ modal' = [modal EXCEPT !.display = "none", !.closedAt = nDetails]
    /\ UNCHANGED <<schedVars, cycles, nCycles, dom, failStreak, cmdVars, details,
                   nDetails, renderVars, todoVars, demoVars, pwVars>>

-----------------------------------------------------------------------------
(* The render functions, element by element *)

\* JSON values: an object is a function from its field names, a number is
\* the string of its digits, and reading a field an object lacks gives
\* undefined.
Get(o, f) == IF f \in DOMAIN o THEN o[f] ELSE "undefined"
Has(o, f) == f \in DOMAIN o
Falsy(v) == v \in {"undefined", "", "0"}
Or(a, b) == IF Falsy(a) THEN b ELSE a
EmptyObject == [f \in {} |-> ""]

\* Bodies of /api/status: a full snapshot of a running system, the snapshot
\* of an idle system with no counts, an error object, and a snapshot that
\* lacks status_counts and agent_counts.
StatusPayloads ==
    { [ultima_status |-> [running |-> TRUE, pid |-> "4321"], total_tasks |-> "3",
       status_counts |-> [completed |-> "2", pending |-> "1"],
       agent_counts |-> <<<<"planner", "2">>, <<"coder", "1">>>>],
      [ultima_status |-> [running |-> FALSE], total_tasks |-> "0",
       status_counts |-> EmptyObject, agent_counts |-> <<>>],
      [error |-> "status unavailable"],
      [ultima_status |-> [running |-> FALSE], total_tasks |-> "3"] }

\* The values task.status takes in the lists below; entry 0 of the rotation
\* is a task without a status field.
StatusValues == <<"pending", "in_progress", "completed", "failed", "bogus", "hidden">>

\* Entry i of list v: ids are distinct and not ascending, and the optional
\* fields rotate.
Task(i, v) ==
    [id |-> (i * 7 + v) % 13, agent |-> "coder", source |-> "dashboard"]
    @@ (IF (i + v) % (Len(StatusValues) + 1) = 0 THEN EmptyObject
        ELSE [status |-> StatusValues[(i + v) % (Len(StatusValues) + 1)]])
    @@ (IF i % 3 = 0 THEN [description |-> "write tests", created_at |-> "2025-01-01T10:00:00"]
        ELSE IF i % 3 = 1 THEN [task_description |-> "fix build", timestamp |-> "soon"]
        ELSE EmptyObject)

TaskList(n, v) == [i \in 1..n |-> Task(i, v)]

\* Bodies of /api/tasks: arrays of 0..MaxLen tasks, and an error object.
TasksPayloads ==
    {[kind |-> "array", items |-> TaskList(n, v)] : n \in 0..MaxLen, v \in 1..Variants}
    \cup {[kind |-> "object", items |-> <<>>]}

Loading == [class |-> "loading pulse", text |-> "Loading..."]

\* The page as served.
InitialPage ==
    [statusDot |-> FALSE, statusText |-> <<"Checking...">>, taskCount |-> <<"0 Tasks">>,
     statsGrid |-> <<Loading>>, agentsList |-> <<Loading>>, tasksList |-> <<Loading>>]

NoActivation == [region |-> "none", dataId |-> <<>>, sent |-> <<>>]

\* new Date(timestamp).toLocaleTimeString(), which does not throw.
LocaleTime(timestamp) ==
    IF timestamp = "2025-01-01T10:00:00" THEN "10:00:00 AM" ELSE "Invalid Date"

formatTime(timestamp) ==
    IF Falsy(timestamp) THEN "Unknown" ELSE LocaleTime(timestamp)

\* statusDot.classList.toggle('running') in place of add and remove.
updateStatusBarToggle(p, status) ==
    IF ~Has(status, "ultima_status") THEN [page |-> p, threw |-> TRUE]
    ELSE [page |-> [p EXCEPT
                      !.statusDot = ~p.statusDot,
                      !.statusText = IF status.ultima_status.running
                                     THEN <<"Running (PID: ", Get(status.ultima_status, "pid"), ")">>
                                     ELSE <<"Stopped">>,
                      !.taskCount = <<Get(status, "total_tasks"), " Tasks">>],
          threw |-> FALSE]

\* updateStatusBar: reading status.ultima_status.running throws when the
\* payload has no ultima_status.
updateStatusBarPage(p, status) ==
    IF ~Has(status, "ultima_status") THEN [page |-> p, threw |-> TRUE]
    ELSE [page |-> [p EXCEPT
                      !.statusDot = status.ultima_status.running,
                      !.statusText = IF status.ultima_status.running
                                     THEN <<"Running (PID: ", Get(status.ultima_status, "pid"), ")">>
                                     ELSE <<"Stopped">>,
                      !.taskCount = <<Get(status, "total_tasks"), " Tasks">>],
          threw |-> FALSE]

StatItem(label, value) == [class |-> "stat-item", value |-> value, label |-> label]

\* updateStats: reading status.status_counts.completed throws when the payload
\* has no status_counts.
updateStatsPage(p, status) ==
    IF ~Has(status, "status_counts") THEN [page |-> p, threw |-> TRUE]
    ELSE [page |-> [p EXCEPT !.statsGrid =
                      << StatItem("Total Tasks", Get(status, "total_tasks")),
                         StatItem("Completed", Or(Get(status.status_counts, "completed"), "0")),
                         StatItem("In Progress", Or(Get(status.status_counts, "in_progress"), "0")),
                         StatItem("Pending", Or(Get(status.status_counts, "pending"), "0")) >>],
          threw |-> FALSE]

\* An updateAgents that adds its rows to the list (agentsList.innerHTML += ...),
\* which parses the list again and so drops the handlers of its rows.
updateAgentsPageAppends(p, status) ==
    IF ~Has(status, "agent_counts") THEN [page |-> p, threw |-> TRUE]
    ELSE IF Len(status.agent_counts) = 0
    THEN [page |-> [p EXCEPT !.agentsList =
                      <<[class |-> "loading", text |-> "No active agents"]>>],
          threw |-> FALSE]
    ELSE [page |-> [p EXCEPT !.agentsList =
                      [i \in 1..Len(p.agentsList) |->
                         IF p.agentsList[i].class = "task-item"
                         THEN [p.agentsList[i] EXCEPT !.onclick = FALSE]
                         ELSE p.agentsList[i]]
                      \o [i \in 1..Len(status.agent_counts) |->
                            [class |-> "task-item", dataId |-> <<>>, status |-> "completed",
                             description |-> status.agent_counts[i][1],
                             meta |-> <<status.agent_counts[i][2], " tasks processed">>,
                             onclick |-> FALSE]]],
          threw |-> FALSE]

\* updateAgents: Object.entries(undefined) throws.
updateAgentsPage(p, status) ==
    IF ~Has(status, "agent_counts") THEN [page |-> p, threw |-> TRUE]
    ELSE IF Len(status.agent_counts) = 0
    THEN [page |-> [p EXCEPT !.agentsList =
                      <<[class |-> "loading", text |-> "No active agents"]>>],
          threw |-> FALSE]
    ELSE [page |-> [p EXCEPT !.agentsList =
                      [i \in 1..Len(status.agent_counts) |->
                         [class |-> "task-item", dataId |-> <<>>, status |-> "completed",
                          description |-> status.agent_counts[i][1],
                          meta |-> <<status.agent_counts[i][2], " tasks processed">>,
                          onclick |-> FALSE]]],
          threw |-> FALSE]

\* el.onclick = ... on every .task-item of a list.
Bind(list) ==
    [i \in 1..Len(list) |->
        IF list[i].class = "task-item" THEN [list[i] EXCEPT !.onclick = TRUE]
        ELSE list[i]]

\* document.querySelector('.task-item'), the first row in document order only,
\* in place of querySelectorAll.
attachFirstTaskClickHandler(p) ==
    IF \E i \in 1..Len(p.agentsList) : p.agentsList[i].class = "task-item"
    THEN [p EXCEPT !.agentsList[1].onclick = TRUE]
    ELSE IF \E i \in 1..Len(p.tasksList) : p.tasksList[i].class = "task-item"
    THEN [p EXCEPT !.tasksList[1].onclick = TRUE]
    ELSE p

\* attachTaskClickHandlers: the rows of the agents list have class task-item
\* as well.
attachTaskClickHandlers(p) ==
    [p EXCEPT !.agentsList = Bind(@), !.tasksList = Bind(@)]

\* The display window of the task list.
DisplayWindow == 10

\* tasks.slice(-10)
sliceLast(items) ==
    IF Len(items) <= DisplayWindow THEN items
    ELSE SubSeq(items, Len(items) - DisplayWindow + 1, Len(items))

\* tasks.slice(0, 10)
slice(items) ==
    IF Len(items) <= DisplayWindow THEN items ELSE SubSeq(items, 1, DisplayWindow)

\* The row updateTasks writes for a task.
TaskRow(task) ==
    [class |-> "task-item", dataId |-> <<task.id>>,
     status |-> Or(Get(task, "status"), "pending"),
     description |-> Or(Get(task, "description"),
                        Or(Get(task, "task_description"), "No description")),
     meta |-> <<Get(task, "agent"), Get(task, "source"),
                formatTime(Or(Get(task, "created_at"), Get(task, "timestamp")))>>,
     onclick |-> FALSE]

\* updateTasks: an object that is not an array has no length and no slice.
updateTasksPage(p, tasks) ==
    IF tasks.kind # "array" THEN [page |-> p, threw |-> TRUE]
    ELSE IF Len(tasks.items) = 0
    THEN [page |-> [p EXCEPT !.tasksList =
                      <<[class |-> "loading", text |-> "No tasks found"]>>],
          threw |-> FALSE]
    ELSE [page |-> attachTaskClickHandlers(
                      [p EXCEPT !.tasksList =
                         [i \in 1..Len(slice(tasks.items)) |-> TaskRow(slice(tasks.items)[i])]]),
          threw |-> FALSE]

\* The stylesheet applied to <div class="task-status X">: the base rule, the
\* three rules for a status, and the rule of the utility class hidden.
IndicatorStyle(X) ==
    [background |-> IF X = "completed" THEN "#2ed573"
                    ELSE IF X = "failed" THEN "#ff4757"
                    ELSE IF X = "in_progress" THEN "#00d4ff"
                    ELSE "#ffa502",
     display |-> IF X = "hidden" THEN "none" ELSE "block"]

\* Lines 419-422 of loadDashboard on the page p: the four render calls in
\* order; the first throw ends the pass.
RenderPassPage(p, status, tasks) ==
    LET r1 == updateStatusBarPage(p, status) IN
    IF r1.threw THEN r1 ELSE
    LET r2 == updateStatsPage(r1.page, status) IN
    IF r2.threw THEN r2 ELSE
    LET r3 == updateAgentsPage(r2.page, status) IN
    IF r3.threw THEN r3 ELSE
    updateTasksPage(r3.page, tasks)

\* A refresh cycle reaches its render calls with the payloads status and tasks;
\* the calls run without an await between them.
RenderCycle(status, tasks) ==
    /\ page' = RenderPassPage(page, status, tasks).page
    /\ lastCall' = [fn |-> "loadDashboard", arg |-> <<status, tasks>>,
                    threw |-> RenderPassPage(page, status, tasks).threw,
                    fresh |-> page = InitialPage]
    /\ UNCHANGED <<schedVars, cycles, nCycles, dom, failStreak, cmdVars, modalVars,
                   activation, todoVars, demoVars, pwVars>>

\* A render function is called with a payload.
Call(fn, arg, result) ==
    /\ page' = result.page
    /\ lastCall' = [fn |-> fn, arg |-> arg, threw |-> result.threw]
    /\ UNCHANGED <<schedVars, cycles, nCycles, dom, failStreak, cmdVars, modalVars,
                   activation, todoVars, demoVars, pwVars>>

CallUpdateStatusBar(status) ==
    /\ status \in StatusPayloads
    /\ Call("updateStatusBar", status, updateStatusBarPage(page, status))

CallUpdateStats(status) ==
    /\ status \in StatusPayloads
    /\ Call("updateStats", status, updateStatsPage(page, status))

CallUpdateAgents(status) ==
    /\ status \in StatusPayloads
    /\ Call("updateAgents", status, updateAgentsPage(page, status))

CallUpdateTasks(tasks) ==
    /\ tasks \in TasksPayloads
    /\ Call("updateTasks", tasks, updateTasksPage(page, tasks))

\* The requests of showTaskModal(id), in the order they are issued.
Requests(dataId) ==
    <<[path |-> "/api/task/{id}", id |-> dataId], [path |-> "/api/task/{id}/log", id |-> dataId]>>

\* A click on row i of a list runs the handler bound to it, if any.
ActivateRow(region, i) ==
    /\ i \in 1..Len(page[region])
    /\ page[region][i].class = "task-item"
    /\ activation' = [region |-> region, dataId |-> page[region][i].dataId,
                      sent |-> IF page[region][i].onclick
                               THEN Requests(page[region][i].dataId) ELSE <<>>]
    /\ UNCHANGED <<schedVars, cycles, nCycles, dom, failStreak, cmdVars, modalVars,
                   page, lastCall, todoVars, demoVars, pwVars>>

-----------------------------------------------------------------------------
(* TodoApp (todo-script.js) *)

\* A string is the sequence of its characters.
Inputs == {<<>>, <<" ">>, <<"a">>, <<" ", "b", " ">>}

\* String.prototype.trim: white space is removed from both ends.
RECURSIVE TrimStart(_)
TrimStart(s) == IF s # <<>> /\ Head(s) = " " THEN TrimStart(Tail(s)) ELSE s

RECURSIVE TrimEnd(_)
TrimEnd(s) ==
    IF s # <<>> /\ s[Len(s)] = " " THEN TrimEnd(SubSeq(s, 1, Len(s) - 1)) ELSE s

trim(s) == TrimEnd(TrimStart(s))

\* localStorage.getItem('todos') on a first visit is null.
NoItem == [present |-> FALSE, value |-> <<>>]

\* JSON.stringify(this.todos): the members of each item in the order id, text,
\* completed.
stringify(list) ==
    [i \in 1..Len(list) |-> <<list[i].id, list[i].text, list[i].completed>>]

\* JSON.parse(localStorage.getItem('todos')) || []
parse(item) ==
    IF ~item.present THEN <<>>
    ELSE [i \in 1..Len(item.value) |->
            [id |-> item.value[i][1], text |-> item.value[i][2],
             completed |-> item.value[i][3]]]

\* Array.prototype.filter: the items of list at the indices in keep, from
\* index i on, in order.
RECURSIVE SelectFrom(_, _, _)
SelectFrom(list, keep, i) ==
    IF i > Len(list) THEN <<>>
    ELSE (IF i \in keep THEN <<list[i]>> ELSE <<>>) \o SelectFrom(list, keep, i + 1)

Select(list, keep) == SelectFrom(list, keep, 1)

getFilteredTodos(list, f) ==
    IF f = "active" THEN Select(list, {i \in 1..Len(list) : ~list[i].completed})
    ELSE IF f = "completed" THEN Select(list, {i \in 1..Len(list) : list[i].completed})
    ELSE list

\* render: one <li> per filtered item, whose checkbox calls app.toggleTodo(id)
\* and whose button calls app.deleteTodo(id).
render(list, f) == getFilteredTodos(list, f)

\* save: localStorage.setItem('todos', JSON.stringify(this.todos))
save(list) == [present |-> TRUE, value |-> stringify(list)]

\* The index of the first item of list with the id, 0 if there is none
\* (Array.prototype.find).
find(list, id) ==
    IF \E i \in 1..Len(list) : list[i].id = id
    THEN CHOOSE i \in 1..Len(list) :
            list[i].id = id /\ \A j \in 1..(i - 1) : list[j].id # id
    ELSE 0

\* The user edits #todoInput.
TypeInput(v) ==
    /\ todoInput' = v
    /\ UNCHANGED <<pageVars, todos, stored, filter, todoList, now, demoVars, pwVars>>

\* A toggleTodo that does not call save.
toggleTodoUnsaved(id) ==
    /\ \E i \in 1..Len(todoList) : todoList[i].id = id
    /\ find(todos, id) # 0
    /\ todos' = [todos EXCEPT ![find(todos, id)].completed = ~@]
    /\ todoList' = render(todos', filter)
    /\ UNCHANGED <<pageVars, stored, todoInput, filter, now, demoVars, pwVars>>

\* An addTodo that tests input.value instead of the trimmed text.
addTodoUntrimmed ==
    /\ Len(todos) < MaxTodos
    /\ IF todoInput # <<>>
       THEN /\ todos' = Append(todos, [id |-> now, text |-> trim(todoInput),
                                       completed |-> FALSE])
            /\ stored' = save(todos')
            /\ todoList' = render(todos', filter)
            /\ todoInput' = <<>>
       ELSE UNCHANGED <<todos, stored, todoList, todoInput>>
    /\ UNCHANGED <<pageVars, filter, now, demoVars, pwVars>>

\* addTodo: click on #addBtn or Enter in #todoInput.
addTodo ==
    /\ Len(todos) < MaxTodos
    /\ IF trim(todoInput) # <<>>
       THEN /\ todos' = Append(todos, [id |-> now, text |-> trim(todoInput),
                                       completed |-> FALSE])
            /\ stored' = save(todos')
            /\ todoList' = render(todos', filter)
            /\ todoInput' = <<>>
       ELSE UNCHANGED <<todos, stored, todoList, todoInput>>
    /\ UNCHANGED <<pageVars, filter, now, demoVars, pwVars>>

\* toggleTodo(id), called by the checkbox of a row of #todoList.
toggleTodo(id) ==
    /\ \E i \in 1..Len(todoList) : todoList[i].id = id
    /\ IF find(todos, id) # 0
       THEN /\ todos' = [todos EXCEPT ![find(todos, id)].completed = ~@]
            /\ stored' = save(todos')
            /\ todoList' = render(todos', filter)
       ELSE UNCHANGED <<todos, stored, todoList>>
    /\ UNCHANGED <<pageVars, todoInput, filter, now, demoVars, pwVars>>

\* deleteTodo(id), called by the button of a row of #todoList.
deleteTodo(id) ==
    /\ \E i \in 1..Len(todoList) : todoList[i].id = id
    /\ todos' = Select(todos, {i \in 1..Len(todos) : todos[i].id # id})
    /\ stored' = save(todos')
    /\ todoList' = render(todos', filter)
    /\ UNCHANGED <<pageVars, todoInput, filter, now, demoVars, pwVars>>

\* setFilter, called by a click on a .filter-btn.
setFilter(f) ==
    /\ filter' = f
    /\ todoList' = render(todos, f)
    /\ UNCHANGED <<pageVars, todos, stored, todoInput, now, demoVars, pwVars>>

\* The page is loaded again: `const app = new TodoApp()`.
NewTodoApp ==
    /\ todos' = parse(stored)
    /\ filter' = "all"
    /\ todoList' = render(todos', "all")
    /\ todoInput' = <<>>
    /\ UNCHANGED <<pageVars, stored, now, demoVars, pwVars>>

\* A millisecond passes.
ClockTick ==
    /\ now < MaxClock
    /\ now' = now + 1
    /\ UNCHANGED <<pageVars, todos, stored, todoInput, filter, todoList, demoVars, pwVars>>

-----------------------------------------------------------------------------
(* UltimaDashboard (ultima-dashboard.js) *)

\* The number of entries addRecentTask keeps.
RecentWindow == 5

\* The entries the page serves in #recentTasks, first child first.
ServedTasks ==
    << [description |-> "Create portfolio website", status |-> "completed"],
       [description |-> "Generate password app", status |-> "completed"],
       [description |-> "Build ULTIMA dashboard", status |-> "active"] >>

\* The number the page serves in #activeTasks.
ServedActive == 12

\* The .progress-fill elements and the inline widths the page serves, in percent.
Bars == {"cpu", "memory", "gpu"}
ServedWidths == [b \in Bars |-> IF b = "cpu" THEN 45 ELSE IF b = "memory" THEN 62 ELSE 28]

\* The values of #taskDescription, which the form requires.
Descriptions == {"Deploy", "Refactor"}

\* The default locales: one that groups digits with a comma, one with a point.
Locales == {"en-US", "de-DE"}

\* Math.floor(Math.random() * 3) and Math.floor(Math.random() * 5) - 2, and the
\* least and the greatest value of Math.floor(Math.random() * 10) - 5.
CompletedSteps == 0..2
ActiveChanges == -2..2
Variations == {-5, 4}

\* Number.prototype.toLocaleString of n < 1000000 in locale loc: the groups of
\* three digits and the separator between them.
toLocaleString(n, loc) ==
    IF n < 1000 THEN [groups |-> <<n>>, sep |-> ""]
    ELSE [groups |-> <<n \div 1000, n % 1000>>,
          sep |-> IF loc = "en-US" THEN "," ELSE "."]

\* The text the page serves in #tasksCompleted.
ServedCompleted == [groups |-> <<1, 247>>, sep |-> ","]

\* parseInt(text.replace(/,/g, '')): the commas are removed, and parseInt reads
\* digits up to the first character that is not one.
parseIntNoCommas(text) ==
    IF Len(text.groups) = 2 /\ text.sep = ","
    THEN text.groups[1] * 1000 + text.groups[2]
    ELSE text.groups[1]

Max(a, b) == IF a >= b THEN a ELSE b
Min(a, b) == IF a <= b THEN a ELSE b

\* An addRecentTask that appends the new entry and drops the first one.
addRecentTaskAtEnd(list, description, status) ==
    LET tasks == Append(list, [description |-> description, status |-> status])
    IN  IF Len(tasks) > RecentWindow THEN Tail(tasks) ELSE tasks

\* addRecentTask: the new entry becomes the first child, and the last child is
\* removed when there are more than five.
addRecentTask(list, description, status) ==
    LET tasks == <<[description |-> description, status |-> status]>> \o list
    IN  IF Len(tasks) > RecentWindow THEN SubSeq(tasks, 1, Len(tasks) - 1) ELSE tasks

\* updateTaskStats
updateTaskStats(current) == current + 1

\* Submit of #newTaskForm: createNewTask with the description in the form.
createNewTask(description) ==
    /\ newTaskModal
    /\ notifications < MaxNotes
    /\ activeTasks < MaxActive
    /\ notifications' = notifications + 1
    /\ recentTasks' = addRecentTask(recentTasks, description, "active")
    /\ newTaskModal' = FALSE
    /\ activeTasks' = updateTaskStats(activeTasks)
    /\ UNCHANGED <<pageVars, todoVars, tasksCompleted, progress, updates, animations, locale, pwVars>>

\* The two timeouts of showNotification have fired: the notification is removed.
NotificationExpires ==
    /\ notifications > 0
    /\ notifications' = notifications - 1
    /\ UNCHANGED <<pageVars, todoVars, recentTasks, newTaskModal, tasksCompleted,
                   activeTasks, progress, updates, animations, locale, pwVars>>

\* Click on #newTaskBtn.
OpenNewTaskModal ==
    /\ ~newTaskModal
    /\ newTaskModal' = TRUE
    /\ UNCHANGED <<pageVars, todoVars, recentTasks, notifications, tasksCompleted,
                   activeTasks, progress, updates, animations, locale, pwVars>>

\* Click on #closeModal or on the backdrop of the modal.
CloseNewTaskModal ==
    /\ newTaskModal
    /\ newTaskModal' = FALSE
    /\ UNCHANGED <<pageVars, todoVars, recentTasks, notifications, tasksCompleted,
                   activeTasks, progress, updates, animations, locale, pwVars>>

\* The 5000 ms interval fires: updateRealTimeData with the two random numbers.
updateRealTimeData(step, change) ==
    /\ updates < MaxUpdates
    /\ activeTasks + change <= MaxActive
    /\ updates' = updates + 1
    /\ tasksCompleted' = toLocaleString(parseIntNoCommas(tasksCompleted) + step, locale)
    /\ activeTasks' = Max(0, activeTasks + change)
    /\ UNCHANGED <<pageVars, todoVars, recentTasks, newTaskModal, notifications,
                   progress, animations, locale, pwVars>>

\* The 3000 ms interval fires: animateProgressBars with a random number per bar.
animateProgressBars(variation) ==
    /\ animations < MaxAnimations
    /\ animations' = animations + 1
    /\ progress' = [b \in Bars |-> Max(10, Min(90, progress[b] + variation[b]))]
    /\ UNCHANGED <<pageVars, todoVars, recentTasks, newTaskModal, notifications,
                   tasksCompleted, activeTasks, updates, locale, pwVars>>

-----------------------------------------------------------------------------
(* PasswordGenerator *)

\* this.characters, each string as the sequence of its characters.
characters ==
    [uppercase |-> <<"A","B","C","D","E","F","G","H","I","J","K","L","M",
                     "N","O","P","Q","R","S","T","U","V","W","X","Y","Z">>,
     lowercase |-> <<"a","b","c","d","e","f","g","h","i","j","k","l","m",
                     "n","o","p","q","r","s","t","u","v","w","x","y","z">>,
     numbers   |-> <<"0","1","2","3","4","5","6","7","8","9">>,
     symbols   |-> <<"!","@","#","$","%","^","&","*","(",")","_","+","-",
                     "=","[","]","{","}","|",";",":",",",".","<",">","?">>]

Types == {"uppercase", "lowercase", "numbers", "symbols"}

\* The values of the slider.
SliderValues == {0, 4, 8, 12, 16}

\* The characters of a string.
Chars(s) == {s[i] : i \in 1..Len(s)}

\* The charset generatePassword builds for the checked types.
charsetOf(types) ==
    (IF "uppercase" \in types THEN characters.uppercase ELSE <<>>)
    \o (IF "lowercase" \in types THEN characters.lowercase ELSE <<>>)
    \o (IF "numbers" \in types THEN characters.numbers ELSE <<>>)
    \o (IF "symbols" \in types THEN characters.symbols ELSE <<>>)

\* The i-th result of Math.random(), as k of k / Grain: the numbers tried
\* begin at start and advance by stride.
random(i, start, stride) == (start + i * stride) % Grain

\* The loop of generatePassword: charset.charAt(Math.floor(Math.random() * charset.length))
\* for i = 0 .. length - 1.
loop(length, charset, start, stride) ==
    LET n == Len(charset)
    IN  [i \in 1..length |-> charset[((random(i - 1, start, stride) * n) \div Grain) + 1]]

\* A score whose bonus for length is 20.
scoreBonusTwenty(password) ==
    (IF Len(password) >= 12 THEN 25 ELSE IF Len(password) >= 8 THEN 15 ELSE 5)
    + (IF Chars(password) \cap Chars(characters.lowercase) # {} THEN 15 ELSE 0)
    + (IF Chars(password) \cap Chars(characters.uppercase) # {} THEN 15 ELSE 0)
    + (IF Chars(password) \cap Chars(characters.numbers) # {} THEN 15 ELSE 0)
    + (IF Chars(password) \ (Chars(characters.lowercase) \cup Chars(characters.uppercase)
                              \cup Chars(characters.numbers)) # {} THEN 20 ELSE 0)
    + (IF Len(password) >= 16 THEN 20 ELSE 0)

\* The score updateStrengthIndicator computes.
score(password) ==
    (IF Len(password) >= 12 THEN 25 ELSE IF Len(password) >= 8 THEN 15 ELSE 5)
    + (IF Chars(password) \cap Chars(characters.lowercase) # {} THEN 15 ELSE 0)
    + (IF Chars(password) \cap Chars(characters.uppercase) # {} THEN 15 ELSE 0)
    + (IF Chars(password) \cap Chars(characters.numbers) # {} THEN 15 ELSE 0)
    + (IF Chars(password) \ (Chars(characters.lowercase) \cup Chars(characters.uppercase)
                              \cup Chars(characters.numbers)) # {} THEN 20 ELSE 0)
    + (IF Len(password) >= 16 THEN 10 ELSE 0)

\* updateStrengthIndicator: the bar and the text it sets.
updateStrengthIndicator(password) ==
    LET s == score(password)
        level == IF s < 40 THEN "weak" ELSE IF s < 70 THEN "medium" ELSE "strong"
    IN  [bar  |-> [width |-> Min(s, 100), className |-> "strength-fill strength-" \o level],
         text |-> [textContent |-> IF s < 40 THEN "Weak" ELSE IF s < 70 THEN "Medium" ELSE "Strong",
                   className |-> "strength-text strength-" \o level]]

\* The field and the indicator as the page serves them.
Served ==
    [field |-> <<>>,
     bar   |-> [width |-> 0, className |-> "strength-fill"],
     text  |-> [textContent |-> "", className |-> "strength-text"],
     dialog |-> ""]

NoTypeMessage == "Please select at least one character type!"

\* A generatePassword that empties the field when no type is checked.
generatedClearsField(length, types, before, start, stride) ==
    IF charsetOf(types) = <<>>
    THEN [before EXCEPT !.dialog = NoTypeMessage, !.field = <<>>]
    ELSE LET password == loop(length, charsetOf(types), start, stride)
             indicator == updateStrengthIndicator(password)
         IN  [field |-> password, bar |-> indicator.bar, text |-> indicator.text,
              dialog |-> before.dialog]

\* generatePassword: what it leaves in the field, the indicator and the alert.
generated(length, types, before, start, stride) ==
    IF charsetOf(types) = <<>>
    THEN [before EXCEPT !.dialog = NoTypeMessage]
    ELSE LET password == loop(length, charsetOf(types), start, stride)
             indicator == updateStrengthIndicator(password)
         IN  [field |-> password, bar |-> indicator.bar, text |-> indicator.text,
              dialog |-> before.dialog]

\* Click on #generateBtn.
generatePassword(start, stride) ==
    LET r == generated(lengthSlider, checked,
                       [field |-> passwordField, bar |-> strengthBar,
                        text |-> strengthText, dialog |-> dialog], start, stride)
    IN  /\ dialog = ""
        /\ passwordField' = r.field
        /\ strengthBar' = r.bar
        /\ strengthText' = r.text
        /\ dialog' = r.dialog
        /\ UNCHANGED <<pageVars, todoVars, demoVars, lengthSlider, lengthValue, checked>>

\* Input on #length: updateLength.
updateLength(value) ==
    /\ dialog = ""
    /\ value # lengthSlider
    /\ lengthSlider' = value
    /\ lengthValue' = value
    /\ UNCHANGED <<pageVars, todoVars, demoVars, checked, passwordField, strengthBar,
                   strengthText, dialog>>

\* Click on the checkbox of a character type.
ToggleType(type) ==
    /\ dialog = ""
    /\ checked' = IF type \in checked THEN checked \ {type} ELSE checked \cup {type}
    /\ UNCHANGED <<pageVars, todoVars, demoVars, lengthSlider, lengthValue, passwordField,
                   strengthBar, strengthText, dialog>>

\* The alert of generatePassword is dismissed.
ClosePasswordAlert ==
    /\ dialog # ""
    /\ dialog' = ""
    /\ UNCHANGED <<pageVars, todoVars, demoVars, lengthSlider, lengthValue, checked,
                   passwordField, strengthBar, strengthText>>

-----------------------------------------------------------------------------
(* The specification *)

\* The page after its DOMContentLoaded listener has run: loadDashboard() has
\* issued the first two fetches and startAutoRefresh() has set the first timer.
PageInit ==
    /\ timers = {1}
    /\ refreshInterval = 1
    /\ nextTimer = 1
    /\ stopped = FALSE
    /\ nCycles = 1
    /\ cycles = (1 :> [origin |-> "load", phase |-> "fetching", st |-> Pending,
                       tk |-> Pending, status |-> "none"])
    /\ dom = [r \in Regions |-> Initial]
    /\ failStreak = 0
    /\ inflight = [s \in Slots |-> 0]
    /\ timeouts = NoTimeouts
    /\ alert = NoAlert
    /\ formHidden = TRUE
    /\ desc = FALSE
    /\ details = <<>>
    /\ nDetails = 0
    /\ modal = InitialModal
    /\ page = InitialPage
    /\ lastCall = [fn |-> "none", arg |-> <<>>, threw |-> FALSE]
    /\ activation = NoActivation

\* TodoApp constructed on a first visit.
TodoInit ==
    /\ todos = <<>>
    /\ stored = NoItem
    /\ todoInput = <<>>
    /\ filter = "all"
    /\ todoList = <<>>
    /\ now = 1

\* UltimaDashboard constructed over the page as served, in a browser whose
\* default locale is loc.
DemoInit(loc) ==
    /\ recentTasks = ServedTasks
    /\ newTaskModal = FALSE
    /\ notifications = 0
    /\ tasksCompleted = ServedCompleted
    /\ activeTasks = ServedActive
    /\ progress = ServedWidths
    /\ updates = 0
    /\ animations = 0
    /\ locale = loc

\* PasswordGenerator constructed over a page that serves the slider at length
\* with the checkboxes of types checked: init ends with generatePassword(), whose
\* random numbers are those of start and stride.
PwInit(length, types, start, stride) ==
    LET r == generated(length, types, Served, start, stride)
    IN  /\ lengthSlider = length
        /\ lengthValue = length
        /\ checked = types
        /\ passwordField = r.field
        /\ strengthBar = r.bar
        /\ strengthText = r.text
        /\ dialog = r.dialog

Init ==
    /\ PageInit
    /\ TodoInit
    /\ DemoInit("en-US")
    /\ PwInit(12, Types, 0, 1)

\* The refresh core: the scheduler, the Refresh button, and every refresh
\* cycle from its fetches to its render pass.
Next ==
    \/ startAutoRefresh
    \/ stopAutoRefresh
    \/ \E t \in 1..MaxTimers : TimerTick(t)
    \/ ClickRefresh
    \/ \E c \in 1..MaxCycles, out \in {Resolved, Rejected} : StatusSettles(c, out)
    \/ \E c \in 1..MaxCycles, out \in {Resolved, Rejected} : TasksSettles(c, out)
    \/ \E c \in 1..MaxCycles, ok \in BOOLEAN, body \in StatusBodies : StatusJson(c, ok, body)
    \/ \E c \in 1..MaxCycles, ok \in BOOLEAN, body \in TasksBodies : TasksJson(c, ok, body)

Spec == Init /\ [][Next]_vars

\* The control panel: the three commands, their alerts and delayed refreshes,
\* and the scheduler, over a backend that has not yet answered the refresh
\* requests (the fetches of the cycles begun stay in flight).
NextControl ==
    \/ startAutoRefresh
    \/ stopAutoRefresh
    \/ \E t \in 1..MaxTimers : TimerTick(t)
    \/ \E slot \in Slots : TimeoutFires(slot)
    \/ Advance
    \/ ClickStartUltima
    \/ ClickStopUltima
    \/ SubmitCreateTask
    \/ toggleCreateTaskForm
    \/ EditDescription
    \/ \E o \in Outcomes : startUltimaResult(o)
    \/ \E o \in Outcomes : stopUltimaResult(o)
    \/ \E o \in Outcomes : createTaskResult(o)
    \/ DismissAlert

ControlSpec == Init /\ [][NextControl]_vars

\* The task detail overlay: the first refresh cycle, which renders the task
\* rows, and every showTaskModal a click on a row begins.
NextModal ==
    \/ \E c \in 1..MaxCycles, out \in {Resolved, Rejected} : StatusSettles(c, out)
    \/ \E c \in 1..MaxCycles, out \in {Resolved, Rejected} : TasksSettles(c, out)
    \/ \E c \in 1..MaxCycles, ok \in BOOLEAN, body \in StatusBodies : StatusJson(c, ok, body)
    \/ \E c \in 1..MaxCycles, ok \in BOOLEAN, body \in TasksBodies : TasksJson(c, ok, body)
    \/ \E id \in TaskIds : ClickTaskRow(id)
    \/ \E d \in 1..MaxDetails, out \in {Resolved, Rejected} : DetailSettles(d, out)
    \/ \E d \in 1..MaxDetails, out \in {Resolved, Rejected} : LogSettles(d, out)
    \/ \E d \in 1..MaxDetails, body \in DetailBodies : TaskJson(d, body)
    \/ \E d \in 1..MaxDetails, body \in LogBodies : LogJson(d, body)
    \/ CloseModal
    \/ DismissAlert

ModalSpec == Init /\ [][NextModal]_vars

\* The render functions applied in any order to any payloads, and clicks on
\* the rows they wrote.
NextRender ==
    \/ \E status \in StatusPayloads : CallUpdateStatusBar(status)
    \/ \E status \in StatusPayloads : CallUpdateStats(status)
    \/ \E status \in StatusPayloads : CallUpdateAgents(status)
    \/ \E tasks \in TasksPayloads : CallUpdateTasks(tasks)
    \/ \E region \in {"agentsList", "tasksList"}, i \in 1..DisplayWindow : ActivateRow(region, i)

RenderSpec == Init /\ [][NextRender]_vars

\* The scheduler with both out-of-cycle triggers: the commands and their
\* delayed refreshes, and the Refresh button.
NextCadence ==
    \/ NextControl
    \/ ClickRefresh

CadenceSpec == Init /\ [][NextCadence]_vars

\* The view over successive refresh cycles: each cycle that reaches its render
\* calls runs them on the page the cycles before it left.
NextView ==
    \E status \in StatusPayloads, tasks \in TasksPayloads : RenderCycle(status, tasks)

ViewSpec == Init /\ [][NextView]_vars

\* TodoApp from a first visit on: the user edits the input, adds, toggles,
\* deletes, filters and reloads the page while the clock runs.
NextTodo ==
    \/ \E v \in Inputs : TypeInput(v)
    \/ addTodo
    \/ \E id \in 1..MaxClock : toggleTodo(id)
    \/ \E id \in 1..MaxClock : deleteTodo(id)
    \/ \E f \in {"all", "active", "completed"} : setFilter(f)
    \/ NewTodoApp
    \/ ClockTick

TodoSpec == Init /\ [][NextTodo]_vars

\* The page of the demo dashboard as served.
DemoStart ==
    /\ PageInit
    /\ TodoInit
    /\ PwInit(12, Types, 0, 1)
    /\ \E loc \in Locales : DemoInit(loc)

\* The new-task dialog of the demo dashboard.
NextRecent ==
    \/ OpenNewTaskModal
    \/ CloseNewTaskModal
    \/ \E description \in Descriptions : createNewTask(description)
    \/ NotificationExpires

RecentSpec == DemoStart /\ [][NextRecent]_vars

\* The simulated counters of the demo dashboard: the two intervals and the
\* creation of tasks.
NextCounters ==
    \/ \E step \in CompletedSteps, change \in ActiveChanges : updateRealTimeData(step, change)
    \/ \E variation \in [Bars -> Variations] : animateProgressBars(variation)
    \/ OpenNewTaskModal
    \/ createNewTask("Deploy")
    \/ NotificationExpires

CountersSpec == DemoStart /\ [][NextCounters]_vars

\* The page of the password generator after construction.
PwStart ==
    /\ PageInit
    /\ TodoInit
    /\ DemoInit("en-US")
    /\ \E length \in SliderValues, types \in SUBSET Types, start \in 0..(Grain - 1),
          stride \in 0..1 : PwInit(length, types, start, stride)

NextPassword ==
    \/ \E start \in 0..(Grain - 1), stride \in 0..1 : generatePassword(start, stride)
    \/ \E value \in SliderValues : updateLength(value)
    \/ \E type \in Types : ToggleType(type)
    \/ ClosePasswordAlert

PasswordSpec == PwStart /\ [][NextPassword]_vars

TypeOK ==
    /\ timers \subseteq 1..nextTimer
    /\ refreshInterval \in 0..nextTimer
    /\ nextTimer \in 1..MaxTimers
    /\ stopped \in BOOLEAN
    /\ nCycles \in 1..MaxCycles
    /\ DOMAIN cycles \subseteq 1..nCycles
    /\ \A c \in DOMAIN cycles :
          /\ cycles[c].origin \in Origins
          /\ cycles[c].phase \in {"fetching", "statusJson", "tasksJson", "done"}
          /\ cycles[c].st \in {Pending, Resolved, Rejected}
          /\ cycles[c].tk \in {Pending, Resolved, Rejected}
          /\ cycles[c].status \in StatusBodies \cup {"none"}
    /\ failStreak \in 0..MaxCycles
    /\ \A s \in Slots : inflight[s] \in 0..MaxCmds
    /\ timeouts \in [TimeoutKeys -> 0..MaxCmds]
    /\ formHidden \in BOOLEAN
    /\ desc \in BOOLEAN

-----------------------------------------------------------------------------
(* Claims *)

\* The refresh cycles begun by the page load or by the interval timer.
Periodic(c) == cycles[c].origin \in {"load", "timer"}

\* The refresh cycles begun by the Refresh button or by a delayed refresh.
OutOfCycle(c) == cycles[c].origin \in {"button", "delayed"}

\* This step begins a refresh cycle of origin o.
Begins(o) == nCycles' = nCycles + 1 /\ cycles'[nCycles'].origin = o

\* C1: periodic refresh cycles never overlap: at most one cycle begun by the
\* page load or by the timer has an unsettled /api/status or /api/tasks request.
C1_PeriodicCyclesNeverOverlap ==
    Cardinality({c \in DOMAIN cycles : Periodic(c) /\ Unsettled(c)}) <= 1

\* C2: an out-of-cycle trigger (Refresh button, delayed refresh) that fires
\* while an earlier cycle has unsettled requests is coalesced: the cycle it
\* would begin has no request in flight at the same time as the earlier one.
C2_OutOfCycleTriggerCoalesced ==
    \A c1, c2 \in DOMAIN cycles :
        (c1 < c2 /\ OutOfCycle(c2) /\ Unsettled(c1)) => ~Unsettled(c2)

\* C3: after stopAutoRefresh and until the next startAutoRefresh no render
\* call writes a region or #lastUpdate, also when a cycle that was in flight
\* at the stop resolves afterwards.
C3_NoRenderWhileStopped == [][stopped => dom' = dom]_vars

\* C4: after stopAutoRefresh and until the next startAutoRefresh neither a
\* timer tick nor a pending delayed refresh begins a refresh cycle.
C4_NoCycleBegunWhileStopped ==
    [][stopped => ~(Begins("timer") \/ Begins("delayed"))]_vars

\* C5: startAutoRefresh is idempotent: while the cadence runs exactly one
\* interval timer is active, however often startAutoRefresh was called.
C5_StartIdempotent == ~stopped => Cardinality(timers) = 1

\* C6: a failed refresh cycle does not stop the cadence: while the scheduler
\* is running, after any number of consecutive failed cycles the interval
\* timer set by the last startAutoRefresh is still active.
C6_FailureKeepsCadence ==
    (~stopped /\ failStreak > 0) => refreshInterval \in timers

\* Two cycles in a row have failed, the scheduler is running, and a timer tick
\* can begin the next cycle.
C6_Witness ==
    /\ failStreak >= 2
    /\ ~stopped
    /\ ENABLED (\E t \in timers : TimerTick(t))

\* C7: in a cycle whose /api/status fetch succeeded and whose /api/tasks fetch
\* fails, the status bar, stats and agents are rendered from that cycle's
\* status payload.
C7_StatusRenderedWhenTasksFail ==
    [][\A c \in DOMAIN cycles :
          (cycles[c].phase = "fetching" /\ cycles[c].st = Resolved
             /\ TasksSettles(c, Rejected))
          => /\ dom'.statusBar = Rendered(c)
             /\ dom'.stats = Rendered(c)
             /\ dom'.agents = Rendered(c)]_vars

\* C8: when a fetch of a refresh cycle fails, the region it feeds shows an
\* unavailable placeholder once the cycle has ended (the failure ends it).
C8_FailedRegionShowsUnavailable ==
    [][\A c \in DOMAIN cycles :
          cycles[c].phase = "fetching" =>
            /\ TasksSettles(c, Rejected) => dom'.tasks = Unavailable
            /\ StatusSettles(c, Rejected) =>
                 /\ dom'.statusBar = Unavailable
                 /\ dom'.stats = Unavailable
                 /\ dom'.agents = Unavailable]_vars

\* C9: no command is dispatched while a prior instance of the same command
\* awaits its response: each action slot has at most one POST in flight.
C9_OneCommandPerSlot == \A s \in Slots : inflight[s] <= 1

\* C10: when createTask receives {success: false, error: E}, under any HTTP
\* status, the form is left as it is, the alert shows E and no refresh is
\* scheduled.
C10_RejectedCreateKeepsForm ==
    [][\A o \in Outcomes :
          (o.kind = "json" /\ ~o.success /\ createTaskResult(o))
          => /\ formHidden' = formHidden
             /\ desc' = desc
             /\ alert'.text = o.error
             /\ timeouts' = timeouts]_vars

\* A callback scheduled by the handler of slot, due in rem ms.
Timeout(slot, rem) == [slot |-> slot, rem |-> rem]

\* C11: when createTask receives a 2xx response with {success: true}, the
\* form is reset and hidden and exactly one refresh is scheduled, due in
\* CreateDelay (1000) ms; it is not run in the handler, and a delayed refresh
\* begins only from a callback whose delay has elapsed.
C11_CreateSuccessSchedulesRefresh ==
    [][/\ \A o \in Outcomes :
            (o.kind = "json" /\ o.ok /\ o.success /\ createTaskResult(o))
            => /\ desc' = FALSE
               /\ formHidden' = TRUE
               /\ timeouts' = [timeouts EXCEPT ![Timeout("create", CreateDelay)] = @ + 1]
               /\ nCycles' = nCycles
       /\ Begins("delayed")
            => \E slot \in Slots :
                  /\ timeouts[Timeout(slot, 0)] > 0
                  /\ timeouts' = [timeouts EXCEPT ![Timeout(slot, 0)] = @ - 1]]_vars

\* A createTask has succeeded: its form is reset and hidden and its refresh is
\* pending with the whole delay still to run.
C11_Witness ==
    /\ timeouts[Timeout("create", CreateDelay)] = 1
    /\ PendingTimeouts = 1
    /\ formHidden
    /\ ~desc
    /\ inflight["create"] = 0

\* C12: startUltima and stopUltima each send one POST; a {success: true}
\* result schedules exactly one refresh (due in 2000 ms for start, 1000 ms for
\* stop) and shows no alert; any other result shows the error in an alert and
\* schedules nothing; the handler never sends the POST again.
C12_UltimaCommandOutcome ==
    [][\A slot \in {"start", "stop"} :
          /\ inflight'[slot] > inflight[slot] => inflight'[slot] = inflight[slot] + 1
          /\ \A o \in Outcomes :
                UltimaResult(slot, o)
                => /\ inflight' = [inflight EXCEPT ![slot] = @ - 1]
                   /\ nCycles' = nCycles
                   /\ IF o.kind = "json" /\ o.success
                      THEN /\ timeouts' =
                                [timeouts EXCEPT
                                   ![Timeout(slot, IF slot = "start" THEN StartDelay
                                                   ELSE StopDelay)] = @ + 1]
                           /\ alert' = NoAlert
                      ELSE /\ timeouts' = timeouts
                           /\ alert'.slot = slot
                           /\ alert'.text = (IF o.kind = "json" THEN o.error
                                             ELSE o.kind)]_vars

\* A start command has succeeded (its refresh is pending) and a stop command
\* has failed (its alert is open).
C12_Witness ==
    /\ timeouts[Timeout("start", StartDelay)] = 1
    /\ PendingTimeouts = 1
    /\ alert.slot = "stop"
    /\ alert.text \in Errors

\* C14: a non-2xx response to /api/status or /api/tasks is a fetch error of
\* the cycle: reading a non-2xx status body ends the cycle, and a non-2xx
\* tasks body never reaches the render functions.
C14_Non2xxIsFetchError ==
    [][\A c \in DOMAIN cycles :
          /\ \A body \in StatusBodies :
                StatusJson(c, FALSE, body)
                => (c \notin DOMAIN cycles' \/ cycles'[c].phase = "done")
          /\ \A body \in TasksBodies :
                TasksJson(c, FALSE, body) => dom' = dom]_vars

\* C15: the view is never overwritten with stale data: no region comes to show
\* the payload of a cycle that began before the cycle whose payload it shows.
C15_NoStaleOverwrite ==
    [][\A r \in Regions : dom'[r].src >= dom[r].src]_vars

\* C16: the view never mixes two polls: the status bar, the stats grid and the
\* agents list reflect the same status snapshot whenever no render pass is
\* running (a render pass is one step).
C16_StatusRegionsSameSnapshot ==
    /\ dom.statusBar = dom.stats
    /\ dom.stats = dom.agents

\* C13: when one of the two requests of a task detail succeeds and the other
\* fails, the overlay is opened for that activation, showing the successful
\* half and an error placeholder for the failed half.
C13_DetailOpensOnSingleFailure ==
    [][\A d \in DOMAIN details :
          details[d].phase = "fetching" =>
            /\ (details[d].dt = Resolved /\ LogSettles(d, Rejected))
                 => (modal'.display = "flex" /\ modal'.src = d)
            /\ (details[d].lg = Resolved /\ DetailSettles(d, Rejected))
                 => (modal'.display = "flex" /\ modal'.src = d)]_vars

\* The render function fn applied to the page p.
Apply(fn, arg, p) ==
    CASE fn = "updateStatusBar" -> updateStatusBarPage(p, arg).page
      [] fn = "updateStats" -> updateStatsPage(p, arg).page
      [] fn = "updateAgents" -> updateAgentsPage(p, arg).page
      [] fn = "updateTasks" -> updateTasksPage(p, arg).page

\* The elements of the page p that the render function fn is responsible for.
RegionOf(fn, p) ==
    CASE fn = "updateStatusBar" -> <<p.statusDot, p.statusText, p.taskCount>>
      [] fn = "updateStats" -> <<p.statsGrid>>
      [] fn = "updateAgents" -> <<p.agentsList>>
      [] fn = "updateTasks" -> <<p.tasksList>>

\* C17: rendering is idempotent: after a render function was called with a
\* payload, calling it again with the same payload leaves its region,
\* handlers of its rows included, as it is.
C17_RenderIdempotent ==
    lastCall.fn # "none" =>
        RegionOf(lastCall.fn, Apply(lastCall.fn, lastCall.arg, page))
            = RegionOf(lastCall.fn, page)

\* The task list was rendered in full over a page whose status bar shows a
\* running system and whose agent rows have been bound a handler.
C17_Witness ==
    /\ lastCall.fn = "updateTasks" /\ ~lastCall.threw
    /\ Len(page.tasksList) = DisplayWindow
    /\ page.statusDot
    /\ page.agentsList[1].class = "task-item" /\ page.agentsList[1].onclick

\* C18: handlers do not leak: every rendered task row has exactly one click
\* handler (the onclick property is set), and the activation of a task row
\* issued exactly one detail request and one log request for that row.
C18_OneHandlerPerTaskRow ==
    /\ \A i \in 1..Len(page.tasksList) :
          page.tasksList[i].class = "task-item" => page.tasksList[i].onclick
    /\ activation.region = "tasksList" =>
          /\ Len(activation.sent) = 2
          /\ activation.sent[1] = [path |-> "/api/task/{id}", id |-> activation.dataId]
          /\ activation.sent[2] = [path |-> "/api/task/{id}/log", id |-> activation.dataId]

\* A task row was activated, and the list has been rendered again since with a
\* full window of rows that does not begin with the activated row.
C18_Witness ==
    /\ activation.region = "tasksList"
    /\ lastCall.fn = "updateTasks" /\ ~lastCall.threw
    /\ Len(page.tasksList) = DisplayWindow
    /\ page.tasksList[1].dataId # activation.dataId

\* C19: updateTasks shows the first min(10, n) entries of the n entries it is
\* given, in the order given; an empty list shows 'No tasks found'.
C19_FirstTenInServerOrder ==
    (lastCall.fn = "updateTasks" /\ ~lastCall.threw) =>
        LET items == lastCall.arg.items
            n == Len(items)
            m == IF n < 10 THEN n ELSE 10
        IN  IF n = 0
            THEN page.tasksList = <<[class |-> "loading", text |-> "No tasks found"]>>
            ELSE /\ Len(page.tasksList) = m
                 /\ \A i \in 1..m :
                       /\ page.tasksList[i].class = "task-item"
                       /\ page.tasksList[i].dataId = <<items[i].id>>

\* updateTasks was given more than ten entries whose ids are not ascending.
C19_Witness ==
    /\ lastCall.fn = "updateTasks" /\ ~lastCall.threw
    /\ Len(lastCall.arg.items) > 10
    /\ \E i \in 1..9 : lastCall.arg.items[i].id > lastCall.arg.items[i + 1].id
    /\ Len(page.tasksList) = 10

\* C20: a task whose status is missing or is none of pending, in_progress,
\* completed, failed does not crash rendering: updateTasks completes for the
\* whole list, and the indicator of that task is styled as a pending one.
C20_UnknownStatusStyledPending ==
    (lastCall.fn = "updateTasks" /\ lastCall.arg.kind = "array") =>
        LET items == lastCall.arg.items
            m == IF Len(items) < 10 THEN Len(items) ELSE 10
        IN  /\ ~lastCall.threw
            /\ Len(items) > 0 => Len(page.tasksList) = m
            /\ \A i \in 1..m :
                  Get(items[i], "status") \notin {"pending", "in_progress", "completed", "failed"}
                  => IndicatorStyle(page.tasksList[i].status) = IndicatorStyle("pending")

\* C21: an out-of-cycle refresh (Refresh button, delayed refresh after a
\* command) neither resets nor doubles the periodic timer.  An interval timer
\* keeps the schedule it was created with, and rescheduling means clearing it
\* and creating a timer with a new id: the active timers, the id in
\* refreshInterval and the ids handed out so far are unchanged by the step.
C21_OutOfCycleKeepsTimer ==
    [][(Begins("button") \/ Begins("delayed"))
         => UNCHANGED <<timers, refreshInterval, nextTimer>>]_vars

\* A delayed refresh has begun and the timer of the page load is the one active
\* timer.
C21_Witness ==
    /\ \E c \in DOMAIN cycles : cycles[c].origin = "delayed"
    /\ timers = {1} /\ refreshInterval = 1 /\ ~stopped

\* C22: task detail is never served from a cache: every activation of a task
\* row begins a showTaskModal for the id of that row whose GET /api/task/{id}
\* and GET /api/task/{id}/log are both issued and outstanding, also when the
\* overlay showed the same task before.
C22_DetailAlwaysRefetched ==
    [][\A id \in TaskIds :
          ClickTaskRow(id) =>
            /\ nDetails' = nDetails + 1
            /\ details'[nDetails'].id = id
            /\ details'[nDetails'].phase = "fetching"
            /\ details'[nDetails'].dt = Pending
            /\ details'[nDetails'].lg = Pending]_vars

\* The overlay showed a task and was closed, and a later activation of the row
\* of the same task has both its requests outstanding.
C22_Witness ==
    /\ modal.src # 0 /\ modal.display = "none"
    /\ \E d \in DOMAIN details :
          /\ d > modal.src
          /\ details[d].id = modal.title
          /\ details[d].dt = Pending /\ details[d].lg = Pending

\* C23: every dispatched command (start, stop, createTask) goes from idle to
\* submitting, which only issues its request, and back to idle when the
\* request settles, and it then ends in exactly one of two outcomes: its
\* delayed refresh was scheduled and no error shown, or an error was shown and
\* no refresh scheduled.
C23_CommandEndsInOneOutcome ==
    [][\A slot \in Slots :
          /\ inflight'[slot] > inflight[slot]
               => /\ inflight'[slot] = inflight[slot] + 1
                  /\ timeouts' = timeouts /\ alert' = alert
          /\ inflight'[slot] < inflight[slot]
               => /\ inflight'[slot] = inflight[slot] - 1
                  /\ \/ /\ timeouts' = [timeouts EXCEPT ![Timeout(slot, Delay(slot))] = @ + 1]
                        /\ alert' = NoAlert
                     \/ /\ timeouts' = timeouts
                        /\ alert' # NoAlert /\ alert'.slot = slot]_vars

\* One command has ended with its refresh scheduled, a createTask has ended
\* with an error on screen, and no command is submitting.
C23_Witness ==
    /\ timeouts[Timeout("stop", StopDelay)] = 1 /\ PendingTimeouts = 1
    /\ alert # NoAlert /\ alert.slot = "create"
    /\ \A slot \in Slots : inflight[slot] = 0

\* C24: the view holds no state of its own: after a refresh cycle whose render
\* calls all completed, the page is the one the same two payloads give on the
\* page as served, whatever the cycles before it displayed.
C24_ViewDeterminedByPayloads ==
    (lastCall.fn = "loadDashboard" /\ ~lastCall.threw) =>
        page = RenderPassPage(InitialPage, lastCall.arg[1], lastCall.arg[2]).page

\* A cycle completed on a page that earlier cycles had written, with agent rows
\* and an empty task list, so that no handler was bound in this cycle.
C24_Witness ==
    /\ lastCall.fn = "loadDashboard" /\ ~lastCall.threw /\ ~lastCall.fresh
    /\ Len(lastCall.arg[2].items) = 0
    /\ page.agentsList[1].class = "task-item"

\* C25: each render function changes only its own region: a call of
\* updateTasks leaves the status bar, the stats grid and the agents list, the
\* handlers of its rows included, as they were, and a call of updateAgents
\* leaves everything but the agents list as it was.
C25_RenderChangesOwnRegionOnly ==
    [][/\ \A tasks \in TasksPayloads :
             CallUpdateTasks(tasks) =>
               /\ page'.statusDot = page.statusDot
               /\ page'.statusText = page.statusText
               /\ page'.taskCount = page.taskCount
               /\ page'.statsGrid = page.statsGrid
               /\ page'.agentsList = page.agentsList
       /\ \A status \in StatusPayloads :
             CallUpdateAgents(status) =>
               /\ page'.statusDot = page.statusDot
               /\ page'.statusText = page.statusText
               /\ page'.taskCount = page.taskCount
               /\ page'.statsGrid = page.statsGrid
               /\ page'.tasksList = page.tasksList]_vars

\* C26: each refresh cycle issues one GET /api/status and one GET /api/tasks,
\* both when it begins and before it awaits either, and issues neither again:
\* a request of a cycle that has settled stays settled, and a cycle that has
\* ended does not come back.  The retry is the cycle the next tick begins.
C26_OneRequestEachPerCycle ==
    [][/\ nCycles' # nCycles =>
             /\ nCycles' = nCycles + 1
             /\ cycles'[nCycles'].phase = "fetching"
             /\ cycles'[nCycles'].st = Pending
             /\ cycles'[nCycles'].tk = Pending
       /\ DOMAIN cycles' \subseteq DOMAIN cycles \cup {nCycles + 1}
       /\ \A c \in DOMAIN cycles \cap DOMAIN cycles' :
             /\ cycles[c].st # Pending => cycles'[c].st = cycles[c].st
             /\ cycles[c].tk # Pending => cycles'[c].tk = cycles[c].tk
             /\ cycles[c].phase # "fetching" => cycles'[c].phase # "fetching"]_vars

\* The status request of a cycle was rejected, the cycle has ended with its
\* tasks request still outstanding, and a later tick has begun the next cycle.
C26_Witness ==
    \E c, n \in DOMAIN cycles :
        /\ cycles[c].st = Rejected /\ cycles[c].phase = "done" /\ cycles[c].tk = Pending
        /\ n > c /\ cycles[n].origin = "timer" /\ cycles[n].phase = "fetching"

\* Cycle c has ended with this step: its function has returned.
Ended(c) == c \notin DOMAIN cycles' \/ cycles'[c].phase = "done"

\* Cycle c is not as it was before this step.
Changed(c) == c \notin DOMAIN cycles' \/ cycles'[c] # cycles[c]

\* C27: a refresh cycle never propagates an exception.  Every step of a cycle
\* that has not ended either ends it or takes it to its next await with no
\* fetch of it rejected.  It ends either after a complete render pass, or with
\* the failure caught and logged by the cycle itself (a rejected fetch, a body
\* that does not parse, an exception of a render function), and in both cases
\* the scheduler and the other cycles are as they were.
C27_CycleCatchesEveryException ==
    [][\A c \in DOMAIN cycles :
          (Changed(c) /\ cycles[c].phase # "done") =>
             \/ /\ Ended(c)
                /\ \/ failStreak' = failStreak + 1
                   \/ /\ failStreak' = 0
                      /\ cycles[c].phase = "tasksJson"
                      /\ dom'.lastUpdate = Rendered(c)
                /\ UNCHANGED schedVars
                /\ \A k \in DOMAIN cycles \ {c} : k \in DOMAIN cycles' /\ cycles'[k] = cycles[k]
             \/ /\ c \in DOMAIN cycles'
                /\ cycles'[c].phase \in {"fetching", "statusJson", "tasksJson"}
                /\ cycles'[c].st # Rejected /\ cycles'[c].tk # Rejected
                /\ failStreak' = failStreak /\ dom' = dom]_vars

\* Two cycles have failed, one of them by an exception of updateStats after
\* updateStatusBar had written, and every cycle begun has ended.
C27_Witness ==
    /\ failStreak >= 2
    /\ dom.statusBar.kind = "rendered" /\ dom.stats.kind # "rendered"
    /\ DOMAIN cycles = {}

\* C28: a detail request is only ever issued for the id of a row of the
\* rendered task list: the requests of an activation come from a row of
\* #tasksList and carry the data-id of that row, never an undefined id.
C28_RequestsOnlyForTaskRows ==
    \A i \in 1..Len(activation.sent) :
        /\ activation.region = "tasksList"
        /\ Len(activation.sent[i].id) = 1

\* C29: when task rows are activated one after the other before the responses
\* of the first arrive, the overlay ends up showing the task activated last
\* for every order of the responses: the response of an older activation never
\* replaces what a newer activation has written to the overlay.
C29_OverlayShowsLatestActivation ==
    [][modal'.src >= modal.src]_vars

\* C30: once the overlay has been closed with #closeModal it stays hidden
\* until a task row is activated again: when the overlay goes from hidden to
\* shown, the showTaskModal that shows it began after the last close.
C30_ClosedOverlayStaysClosed ==
    [][(modal.display = "none" /\ modal'.display = "flex")
          => modal'.src > modal.closedAt]_vars

\* C31: #lastUpdate changes only at the end of a refresh cycle whose two
\* fetches resolved, whose two bodies parsed and whose four render calls
\* completed: the step that changes it ends such a cycle with every region
\* written from it, and a step in which a cycle fails leaves it as it was.
C31_LastUpdateOnlyAfterFullCycle ==
    [][/\ dom'.lastUpdate # dom.lastUpdate =>
            \E c \in DOMAIN cycles :
               /\ cycles[c].phase = "tasksJson"
               /\ cycles[c].st = Resolved /\ cycles[c].tk = Resolved
               /\ cycles[c].status = "snapshot"
               /\ Ended(c)
               /\ \A r \in Regions : dom'[r] = Rendered(c)
               /\ failStreak' = 0
       /\ failStreak' = failStreak + 1 => dom'.lastUpdate = dom.lastUpdate]_vars

\* #lastUpdate was written by a cycle, and a later cycle wrote the status bar
\* and then failed.
C31_Witness ==
    /\ dom.lastUpdate.kind = "rendered" /\ dom.statusBar.kind = "rendered"
    /\ dom.statusBar.src > dom.lastUpdate.src
    /\ failStreak > 0

\* C32: after every addTodo, toggleTodo and deleteTodo the list stored under
\* 'todos' equals the list in memory: a TodoApp constructed now restores
\* exactly this.todos (ids, texts, completed flags, order).
C32_StoredEqualsTodos ==
    parse(stored) = todos

\* The stored list has two items with different texts, the first of them
\* completed, when the clock has reached its last millisecond.
C32_Witness ==
    /\ stored.present /\ Len(todos) = 2
    /\ todos[1].completed /\ ~todos[2].completed
    /\ todos[1].text # todos[2].text
    /\ now = MaxClock

\* C33: the ids of the todo list are pairwise distinct in every reachable
\* state, so that toggleTodo(id) and deleteTodo(id) act on exactly the item of
\* the row the user acted on.
C33_TodoIdsDistinct ==
    \A i, j \in 1..Len(todos) : i # j => todos[i].id # todos[j].id

\* The string s is empty or has white space only.
Blank(s) == \A i \in 1..Len(s) : s[i] = " "

\* The string t is s without the white space at its two ends.
Trimmed(s, t) ==
    /\ t # <<>> /\ t[1] # " " /\ t[Len(t)] # " "
    /\ \E a \in 1..Len(s) :
          /\ SubSeq(s, a, a + Len(t) - 1) = t
          /\ \A i \in 1..Len(s) : (i < a \/ i >= a + Len(t)) => s[i] = " "

\* C34: addTodo with an input that is empty or white space only changes
\* neither the todo list nor the stored value nor the input field; with any
\* other input it appends exactly one uncompleted item with the trimmed text at
\* the end of the list.
C34_AddTodoBlankIsNoOp ==
    [][addTodo =>
          IF Blank(todoInput)
          THEN UNCHANGED <<todos, stored, todoInput>>
          ELSE /\ Len(todos') = Len(todos) + 1
               /\ SubSeq(todos', 1, Len(todos)) = todos
               /\ Trimmed(todoInput, todos'[Len(todos')].text)
               /\ ~todos'[Len(todos')].completed]_vars

\* An item was added from the input " b ", and the input field now holds white
\* space only.
C34_Witness ==
    /\ Len(todos) >= 1 /\ todos[Len(todos)].text = <<"b">>
    /\ todoInput = <<" ">>

\* C35: the recent-task list keeps the last five tasks: from a served list of
\* at most five entries on, the list has at most five entries, and every
\* change of it puts the new entry first and keeps the entries that were
\* there in their order, dropping only the last of them, the oldest, when
\* there were five.
C35_RecentKeepsLastFive ==
    [][/\ Len(recentTasks) <= 5 /\ Len(recentTasks') <= 5
       /\ recentTasks' # recentTasks =>
            /\ Head(recentTasks').status = "active"
            /\ Head(recentTasks').description \in Descriptions
            /\ Tail(recentTasks') =
                 SubSeq(recentTasks, 1, IF Len(recentTasks) < 5 THEN Len(recentTasks) ELSE 4)]_vars

\* Three tasks were created on the page as served: the list has five
\* entries, the new ones first, newest first, and the last served entry is gone.
C35_Witness ==
    /\ Len(recentTasks) = 5
    /\ recentTasks[1].description = "Refactor" /\ recentTasks[2].description = "Deploy"
    /\ recentTasks[3].description = "Deploy"
    /\ recentTasks[4] = ServedTasks[1] /\ recentTasks[5] = ServedTasks[2]

\* The number a reader takes from the text of #tasksCompleted: its digits.
Shown(text) ==
    IF Len(text.groups) = 2 THEN text.groups[1] * 1000 + text.groups[2] ELSE text.groups[1]

\* C36: the simulated counters stay in range: the number of active tasks is
\* never negative, the number of completed tasks shown never decreases, and
\* the width of every progress bar is between 10 and 90 percent once the bar
\* has been updated.
C36_CountersStayInRange ==
    [][/\ activeTasks >= 0 /\ activeTasks' >= 0
       /\ Shown(tasksCompleted') >= Shown(tasksCompleted)
       /\ animations' > 0 =>
            \A b \in Bars : progress'[b] >= 10 /\ progress'[b] <= 90]_vars

\* The same in a browser that groups digits with a comma.
C36_InCommaLocale ==
    [][locale = "en-US" =>
        /\ activeTasks >= 0 /\ activeTasks' >= 0
        /\ Shown(tasksCompleted') >= Shown(tasksCompleted)
        /\ animations' > 0 =>
             \A b \in Bars : progress'[b] >= 10 /\ progress'[b] <= 90]_vars

\* C37: generatePassword with at least one character type checked leaves in
\* the field a password whose length is the value of the slider and whose
\* characters all belong to the sets of the checked types; with no type
\* checked it opens the alert and leaves the field, the bar and the text of
\* the strength indicator as they were.  (The steps of generatePassword are the
\* steps taken with no alert open that change neither slider nor checkboxes.)
C37_GeneratePasswordHonoursSettings ==
    [][(dialog = "" /\ lengthSlider' = lengthSlider /\ checked' = checked) =>
         IF checked # {}
         THEN /\ Len(passwordField') = lengthSlider
              /\ \A i \in 1..Len(passwordField') :
                    \E t \in checked : passwordField'[i] \in Chars(characters[t])
              /\ dialog' = ""
         ELSE /\ dialog' = NoTypeMessage
              /\ passwordField' = passwordField
              /\ strengthBar' = strengthBar
              /\ strengthText' = strengthText]_vars

\* generatePassword has run with no type checked over a field that held a
\* password of digits and symbols: the alert is open and the password is
\* still there.
C37_Witness ==
    /\ dialog = NoTypeMessage
    /\ checked = {}
    /\ Len(passwordField) = 16
    /\ \E i \in 1..16 : passwordField[i] \in Chars(characters.numbers)
    /\ \E i \in 1..16 : passwordField[i] \in Chars(characters.symbols)
    /\ strengthText.textContent = "Strong"

\* C38: once updateStrengthIndicator has run, the score of the password in
\* the field is between 5 and 100, the width of the bar is that score in
\* percent, and the label is Weak exactly when the score is below 40, Medium
\* exactly when it is at least 40 and below 70, and Strong otherwise.
C38_StrengthFollowsScore ==
    strengthBar # Served.bar =>
        LET s == score(passwordField)
        IN  /\ s >= 5 /\ s <= 100
            /\ strengthBar.width = s
            /\ strengthText.textContent = "Weak" <=> s < 40
            /\ strengthText.textContent = "Medium" <=> (s >= 40 /\ s < 70)
            /\ strengthText.textContent = "Strong" <=> s >= 70

\* A password of sixteen characters with letters of both cases, a digit and a
\* symbol has been generated: the bar is at 100 percent and the label is Strong.
C38_Witness ==
    /\ Len(passwordField) = 16
    /\ \A t \in Types : \E i \in 1..16 : passwordField[i] \in Chars(characters[t])
    /\ strengthBar.width = 100
    /\ strengthText.textContent = "Strong"

\* The empty password has the least score, and its label is Weak.
C38_LeastScore ==
    /\ passwordField = <<>>
    /\ strengthBar.width = 5
    /\ strengthText.textContent = "Weak"

=============================================================================
